---- MODULE Spec2Model ----
(***************************************************************************)
(* A model of recompyle: the function rewriting engine (source -> AST ->   *)
(* call-wrapping transformer -> recompile -> exec) and the flat profiler   *)
(* built on it.                                                            *)
(*                                                                         *)
(* Strings that the code inspects character by character (call names and   *)
(* filter patterns) are sequences of tokens: identifiers and constants are *)
(* single tokens, ".", "[", "]" and "*" are tokens of their own.           *)
(***************************************************************************)
EXTENDS Integers, Sequences, FiniteSets, TLC

\* ------------------------------------------------------------------ bounds
MaxFirstLine == 2
MaxArg == 2
MaxFilter == 1
MaxClock == 2
MaxCalls == 2
MaxLimit == 2
MaxTransformers == 2

\* ------------------------------------------------------------ constants
WRAP_NAME == "_recompyle_wrap"
\* The absence of a lineno attribute on a node built by the transformer.
NoLine == -1
\* decorator_name=None
NoDeco == "<None>"

Min(S) == CHOOSE x \in S : \A y \in S : x <= y

\* F applied to the value v: names a result that is used more than once.
Bind(v, F(_)) == F(v)

\* --------------------------------------------------------------- the AST
\* One record shape for every expression and statement node.  kids holds
\* the child nodes in field order; for a Call: func, positional args, then
\* the keyword values, whose names are in kw.
Node(kind, name, kids, kw, lineno) ==
    [kind |-> kind, name |-> name, kids |-> kids, kw |-> kw, lineno |-> lineno]

Nm(id, l) == Node("Name", id, <<>>, <<>>, l)
Const(v, l) == Node("Constant", v, <<>>, <<>>, l)
Attr(v, a, l) == Node("Attribute", a, <<v>>, <<>>, l)
Sub(v, s, l) == Node("Subscript", "", <<v, s>>, <<>>, l)
Call(f, args, l) == Node("Call", "", <<f>> \o args, <<>>, l)
CallKw(f, args, kwnames, kwvals, l) == Node("Call", "", <<f>> \o args \o kwvals, kwnames, l)
Gen(elt, var, iter, l) == Node("GeneratorExp", var, <<elt, iter>>, <<>>, l)
Lambda(body, l) == Node("Lambda", "", <<body>>, <<>>, l)
ExprS(e, l) == Node("Expr", "", <<e>>, <<>>, l)
Ret(e, l) == Node("Return", "", <<e>>, <<>>, l)
RaiseS(e, l) == Node("Raise", "", <<e>>, <<>>, l)
Assign(var, e, l) == Node("Assign", var, <<e>>, <<>>, l)

\* A function definition: kids is the body.
FunctionDef(name, params, decos, body, l) ==
    [kind |-> "FunctionDef", name |-> name, kids |-> body, kw |-> <<>>, lineno |-> l,
     params |-> params, kwonlyargs |-> <<>>, kw_defaults |-> <<>>, decorator_list |-> decos]

\* An optional set argument (blacklist / whitelist): None or a set object.
NoneSet == [isNone |-> TRUE, elems |-> {}]
SetOf(S) == [isNone |-> FALSE, elems |-> S]
\* Python truthiness of `set | None`.
Truthy(s) == ~s.isNone /\ s.elems # {}

\* ------------------------------------------------- RemoveDecoratorTransformer
\* A variant that takes a decorator of another form for one that does not
\* match (sensitivity of C29).
IsDecoTarget_lenient(dec_name, node) ==
    IF node.kind = "Name" THEN (IF node.name = dec_name THEN "True" ELSE "False")
    ELSE IF node.kind = "Call" /\ node.kids[1].kind = "Name"
         THEN (IF node.kids[1].name = dec_name THEN "True" ELSE "False")
         ELSE "False"

\* _is_deco_target: "True" / "False", or "TypeError" for an unsupported
\* decorator node.
IsDecoTarget(dec_name, node) ==
    IF node.kind = "Name" THEN (IF node.name = dec_name THEN "True" ELSE "False")
    ELSE IF node.kind = "Call" /\ node.kids[1].kind = "Name"
         THEN (IF node.kids[1].name = dec_name THEN "True" ELSE "False")
         ELSE "TypeError"

\* ------------------------------------------------------ WrapCallsTransformer
RECURSIVE CanBuildName(_)
CanBuildName(node) ==
    CASE node.kind \in {"Constant", "Name"} -> TRUE
      [] node.kind = "Attribute" -> CanBuildName(node.kids[1])
      [] node.kind = "Subscript" -> CanBuildName(node.kids[1]) /\ CanBuildName(node.kids[2])
      [] OTHER -> FALSE

RECURSIVE _build_name(_)
_build_name(node) ==
    CASE node.kind = "Constant" -> <<node.name>>
      [] node.kind = "Name" -> <<node.name>>
      [] node.kind = "Attribute" -> _build_name(node.kids[1]) \o <<".", node.name>>
      [] node.kind = "Subscript" ->
            _build_name(node.kids[1]) \o <<"[">> \o _build_name(node.kids[2]) \o <<"]">>

\* _allow_name: "False", "True" or "None".
_allow_name(T, name) ==
    IF Truthy(T.blacklist) /\ name \in T.blacklist.elems THEN "False"
    ELSE IF Truthy(T.whitelist) /\ name \in T.whitelist.elems THEN "True"
    ELSE "None"

\* re.finditer(r"\[(.*?)\]", s): the non-overlapping leftmost matches; each
\* runs from a "[" to the first "]" after it (1-based, inclusive).
RECURSIVE FindIter(_, _)
FindIter(s, pos) ==
    LET opens == {i \in pos..Len(s) : s[i] = "[" /\ \E j \in (i+1)..Len(s) : s[j] = "]"}
    IN IF opens = {} THEN <<>>
       ELSE LET i == Min(opens)
                j == Min({k \in (i+1)..Len(s) : s[k] = "]"})
            IN <<[start |-> i, end |-> j]>> \o FindIter(s, j + 1)

\* itertools.combinations(1..n, k), in its lexicographic order.
RECURSIVE Combinations(_, _, _)
Combinations(lo, n, k) ==
    IF k = 0 THEN << <<>> >>
    ELSE IF lo > n - k + 1 THEN <<>>
    ELSE Bind(Combinations(lo + 1, n, k - 1),
              LAMBDA rest : [x \in 1..Len(rest) |-> <<lo>> \o rest[x]])
         \o Combinations(lo + 1, n, k)

\* The inner loop: replace the chosen matches by "[*]", last match first.
RECURSIVE ReplaceReversed(_, _, _, _)
ReplaceReversed(s, matches, c, x) ==
    IF x = 0 THEN s
    ELSE LET m == matches[c[x]]
         IN ReplaceReversed(SubSeq(s, 1, m.start - 1) \o <<"[", "*", "]">>
                              \o SubSeq(s, m.end + 1, Len(s)),
                            matches, c, x - 1)

\* Every wildcard name the loops build, in the order they build them.
RECURSIVE WildcardNamesFrom(_, _, _)
WildcardNamesFrom(s, matches, i) ==
    IF i > Len(matches) THEN <<>>
    ELSE Bind(Combinations(1, Len(matches), i),
              LAMBDA cs : [x \in 1..Len(cs) |-> ReplaceReversed(s, matches, cs[x], Len(cs[x]))])
         \o WildcardNamesFrom(s, matches, i + 1)

WildcardNames(s) == WildcardNamesFrom(s, FindIter(s, 1), 1)

\* The first result of _allow_name that is not None, over names[x..].
RECURSIVE FirstDecision(_, _, _)
FirstDecision(T, names, x) ==
    IF x > Len(names) THEN "None"
    ELSE Bind(_allow_name(T, names[x]),
              LAMBDA r : IF r # "None" THEN r ELSE FirstDecision(T, names, x + 1))

\* A variant that takes no call for a namespace call (sensitivity of C4).
IsNamespaceCall_never(node) == FALSE

IsNamespaceCall(node) ==
    node.kind = "Call" /\ node.kids[1].kind = "Name" /\ node.kids[1].name \in {"globals", "locals"}

\* _allow_wrap_call: "True" / "False", or "TypeError" from _build_name.
_allow_wrap_call(T, node) ==
    IF IsNamespaceCall(node) THEN "False"
    ELSE IF ~Truthy(T.blacklist) /\ ~Truthy(T.whitelist) THEN "True"
    ELSE IF ~CanBuildName(node.kids[1]) THEN "TypeError"
    ELSE Bind(_build_name(node.kids[1]), LAMBDA full_name :
         Bind(_allow_name(T, full_name), LAMBDA exact :
           IF exact # "None" THEN exact
           ELSE Bind(FirstDecision(T, WildcardNames(full_name), 1), LAMBDA wild :
                  IF wild # "None" THEN wild
                  ELSE IF Truthy(T.blacklist) THEN "True" ELSE "False")))

\* The node visit_Call puts in place of an allowed call.
WrapNode(T, node) ==
    Node("Call", "", <<Nm(T.wrap, NoLine)>> \o node.kids, node.kw, node.lineno)

\* A visit returns [err, node, adj]: the error raised ("" for none), the
\* node returned and the transformer's adjust_lineno.
RECURSIVE Visit(_, _, _), VisitSeq(_, _, _)

\* A variant that does not visit the children of the node it returns
\* (sensitivity of C8).
visit_Call_norecurse(T, node, adj) ==
    Bind(_allow_wrap_call(T, node), LAMBDA allow :
      IF allow = "TypeError" THEN [err |-> "TypeError:call", node |-> node, adj |-> adj]
      ELSE [err |-> "", node |-> IF allow = "True" THEN WrapNode(T, node) ELSE node,
            adj |-> adj])

visit_Call(T, node, adj) ==
    Bind(_allow_wrap_call(T, node), LAMBDA allow :
      IF allow = "TypeError" THEN [err |-> "TypeError:call", node |-> node, adj |-> adj]
      ELSE Bind(IF allow = "True" THEN WrapNode(T, node) ELSE node, LAMBDA new_node :
           Bind(VisitSeq(T, new_node.kids, adj), LAMBDA r :
             [err |-> r.err, node |-> [new_node EXCEPT !.kids = r.nodes], adj |-> r.adj])))

\* The removal with the adjustment left as it was (sensitivity of C23).
RemoveDecorator_keepadj(T, node, adj) ==
    IF T.dec_name = NoDeco THEN [err |-> "", node |-> node, adj |-> adj]
    ELSE IF \E x \in 1..Len(node.decorator_list) :
                IsDecoTarget(T.dec_name, node.decorator_list[x]) = "TypeError"
         THEN [err |-> "TypeError:decorator", node |-> node, adj |-> adj]
    ELSE Bind(SelectSeq(node.decorator_list, LAMBDA d : IsDecoTarget(T.dec_name, d) = "False"),
              LAMBDA new_deco_list :
                IF Len(new_deco_list) = Len(node.decorator_list)
                THEN [err |-> "ValueError:decorator", node |-> node, adj |-> adj]
                ELSE [err |-> "", node |-> [node EXCEPT !.decorator_list = new_deco_list],
                      adj |-> adj])

\* RemoveDecoratorTransformer.visit_FunctionDef up to generic_visit:
\* [err, node, adj].
RemoveDecorator(T, node, adj) ==
    IF T.dec_name = NoDeco THEN [err |-> "", node |-> node, adj |-> adj]
    ELSE IF \E x \in 1..Len(node.decorator_list) :
                IsDecoTarget(T.dec_name, node.decorator_list[x]) = "TypeError"
         THEN [err |-> "TypeError:decorator", node |-> node, adj |-> adj]
    ELSE Bind(SelectSeq(node.decorator_list, LAMBDA d : IsDecoTarget(T.dec_name, d) = "False"),
              LAMBDA new_deco_list :
                IF Len(new_deco_list) = Len(node.decorator_list)
                THEN [err |-> "ValueError:decorator", node |-> node, adj |-> adj]
                ELSE [err |-> "", node |-> [node EXCEPT !.decorator_list = new_deco_list],
                      adj |-> adj - 1])

\* The wrapper parameter WrapCallsTransformer.visit_FunctionDef adds before
\* it calls the inherited method.
AddWrapParam(T, node) ==
    IF T.cls = "WrapCallsTransformer"
    THEN [node EXCEPT !.kwonlyargs = Append(@, T.wrap),
                      !.kw_defaults = Append(@, Nm(T.wrap, NoLine))]
    ELSE node

\* WrapCallsTransformer.visit_FunctionDef, then the inherited one (which is
\* all a RemoveDecoratorTransformer does): generic_visit goes through args
\* (kw_defaults), body, decorator_list.
visit_FunctionDef(T, node, adj) ==
    Bind(RemoveDecorator(T, AddWrapParam(T, node), adj),
         LAMBDA rd :
      IF rd.err # "" THEN rd
      ELSE Bind(VisitSeq(T, rd.node.kw_defaults \o rd.node.kids \o rd.node.decorator_list, rd.adj),
                LAMBDA r :
             IF r.err # "" THEN [err |-> r.err, node |-> node, adj |-> r.adj]
             ELSE [err |-> "",
                   node |-> [rd.node EXCEPT
                      !.kw_defaults = SubSeq(r.nodes, 1, Len(rd.node.kw_defaults)),
                      !.kids = SubSeq(r.nodes, Len(rd.node.kw_defaults) + 1,
                                      Len(rd.node.kw_defaults) + Len(rd.node.kids)),
                      !.decorator_list = SubSeq(r.nodes,
                                      Len(rd.node.kw_defaults) + Len(rd.node.kids) + 1,
                                      Len(r.nodes))],
                   adj |-> r.adj]))

Visit(T, node, adj) ==
    CASE node.kind = "Call" /\ T.cls = "WrapCallsTransformer" -> visit_Call(T, node, adj)
      [] node.kind = "FunctionDef" -> visit_FunctionDef(T, node, adj)
      [] OTHER -> Bind(VisitSeq(T, node.kids, adj), LAMBDA r :
                    [err |-> r.err, node |-> [node EXCEPT !.kids = r.nodes], adj |-> r.adj])

\* generic_visit over a list field: [err, nodes, adj].
VisitSeq(T, nodes, adj) ==
    IF nodes = <<>> THEN [err |-> "", nodes |-> <<>>, adj |-> adj]
    ELSE Bind(Visit(T, Head(nodes), adj), LAMBDA h :
           IF h.err # "" THEN [err |-> h.err, nodes |-> nodes, adj |-> h.adj]
           ELSE Bind(VisitSeq(T, Tail(nodes), h.adj), LAMBDA t :
                  [err |-> t.err, nodes |-> <<h.node>> \o t.nodes, adj |-> t.adj]))

\* A variant without the exclusion check (sensitivity of C5).
WrapCallsTransformer_nocheck(wrap_call_name, remove_decorator, blacklist, whitelist) ==
    [err |-> "", cls |-> "WrapCallsTransformer", wrap |-> wrap_call_name,
     dec_name |-> remove_decorator, blacklist |-> blacklist, whitelist |-> whitelist]

\* RemoveDecoratorTransformer.__init__: a transformer that wraps nothing.
RemoveDecoratorTransformer(remove_decorator) ==
    [err |-> "", cls |-> "RemoveDecoratorTransformer", wrap |-> "",
     dec_name |-> remove_decorator, blacklist |-> NoneSet, whitelist |-> NoneSet]

\* WrapCallsTransformer.__init__
WrapCallsTransformer(wrap_call_name, remove_decorator, blacklist, whitelist) ==
    IF Truthy(blacklist) /\ Truthy(whitelist)
    THEN [err |-> "ValueError:lists"]
    ELSE [err |-> "", cls |-> "WrapCallsTransformer", wrap |-> wrap_call_name,
          dec_name |-> remove_decorator, blacklist |-> blacklist, whitelist |-> whitelist]

\* ------------------------------------------------- line numbers (ast module)
\* ast.increment_lineno: every node's lineno, a missing one counting as 0.
RECURSIVE increment_lineno(_, _)
increment_lineno(node, n) ==
    Bind([node EXCEPT !.lineno = (IF @ = NoLine THEN 0 ELSE @) + n,
                      !.kids = [x \in 1..Len(@) |-> increment_lineno(@[x], n)]],
         LAMBDA m : IF m.kind # "FunctionDef" THEN m
                    ELSE [m EXCEPT
                            !.kw_defaults = [x \in 1..Len(@) |-> increment_lineno(@[x], n)],
                            !.decorator_list = [x \in 1..Len(@) |-> increment_lineno(@[x], n)]])

\* ast.fix_missing_locations: a node without lineno takes its parent's.
RECURSIVE fix_missing_locations(_, _)
fix_missing_locations(node, parent_line) ==
    Bind([node EXCEPT !.lineno = IF @ = NoLine THEN parent_line ELSE @],
         LAMBDA m : Bind([m EXCEPT !.kids = [x \in 1..Len(@) |->
                                               fix_missing_locations(@[x], m.lineno)]],
         LAMBDA k : IF k.kind # "FunctionDef" THEN k
                    ELSE [k EXCEPT
                            !.kw_defaults = [x \in 1..Len(@) |->
                                               fix_missing_locations(@[x], m.lineno)],
                            !.decorator_list = [x \in 1..Len(@) |->
                                               fix_missing_locations(@[x], m.lineno)]]))

\* ---------------------------------------------------------- FunctionRewriter
\* ast.parse of the retrieved source: line numbers count from 1 at the
\* first line of the source; indented source does not parse.
Parse(source) == IF source.indent > 0 THEN "IndentationError" ELSE "ok"
Dedent(source) == [source EXCEPT !.indent = 0]

\* FunctionRewriter.__init__ with _get_source: [err, steps, ...].
FunctionRewriter(target_func) ==
    IF ~target_func.isFunction
    THEN [err |-> "TypeError:notfunction", steps |-> <<>>]
    ELSE IF ~target_func.hasSource
    THEN [err |-> "ValueError:source", steps |-> <<"get_source">>]
    ELSE [err |-> "", steps |-> <<"get_source", "parse">>,
          orig_source |-> target_func.source, firstlineno |-> target_func.firstlineno,
          adjust_lineno |-> 0,
          tree |-> (IF Parse(target_func.source) = "IndentationError"
                    THEN Dedent(target_func.source) ELSE target_func.source).tree]

\* A variant that shifts by the first line alone, leaving the adjustment
\* of the transformers aside (sensitivity of C7).
transform_tree_noadjust(rw, T) ==
    Bind(Visit(T, rw.tree, 0), LAMBDA r :
      IF r.err # "" THEN [rw EXCEPT !.err = r.err, !.steps = Append(@, "transform")]
      ELSE Bind(increment_lineno(r.node, rw.firstlineno), LAMBDA shifted :
                  [rw EXCEPT !.steps = Append(@, "transform"),
                             !.adjust_lineno = @ + r.adj,
                             !.tree = fix_missing_locations(shifted, shifted.lineno)]))

\* A variant that counts the source's lines from the first line itself
\* (sensitivity of C28).
transform_tree_fromfirst(rw, T) ==
    Bind(Visit(T, rw.tree, 0), LAMBDA r :
      IF r.err # "" THEN [rw EXCEPT !.err = r.err, !.steps = Append(@, "transform")]
      ELSE Bind(increment_lineno(r.node, rw.firstlineno - 1 + rw.adjust_lineno + r.adj),
                LAMBDA shifted :
                  [rw EXCEPT !.steps = Append(@, "transform"),
                             !.adjust_lineno = @ + r.adj,
                             !.tree = fix_missing_locations(shifted, shifted.lineno)]))

\* FunctionRewriter.transform_tree
transform_tree(rw, T) ==
    Bind(Visit(T, rw.tree, 0), LAMBDA r :
      IF r.err # "" THEN [rw EXCEPT !.err = r.err, !.steps = Append(@, "transform")]
      ELSE Bind(increment_lineno(r.node, rw.firstlineno + rw.adjust_lineno + r.adj),
                LAMBDA shifted :
                  [rw EXCEPT !.steps = Append(@, "transform"),
                             !.adjust_lineno = @ + r.adj,
                             !.tree = fix_missing_locations(shifted, shifted.lineno)]))

RECURSIVE ApplyTransformers(_, _, _)
ApplyTransformers(rw, transformers, x) ==
    IF x > Len(transformers) \/ rw.err # "" THEN rw
    ELSE ApplyTransformers(transform_tree(rw, transformers[x]), transformers, x + 1)

\* FunctionRewriter.compile_tree
compile_tree(rw) ==
    IF rw.tree.kind # "FunctionDef"
    THEN [rw EXCEPT !.err = "TypeError:compile", !.steps = Append(@, "compile")]
    ELSE [rw EXCEPT !.steps = Append(@, "compile")]

\* rewrite_function, from the transformers to the compiled unit.
TransformAndCompile(rw0, transformers) ==
    Bind(ApplyTransformers(rw0, transformers, 1),
         LAMBDA rw : IF rw.err # "" THEN rw ELSE compile_tree(rw))

\* ------------------------------------------------------------ rewrite_function
NoFunc == [kind |-> "nofunc"]

\* The name a remaining decorator is applied under when the unit is executed.
DecoName(d) ==
    IF d.kind = "Name" THEN d.name
    ELSE IF d.kind = "Call" /\ d.kids[1].kind = "Name" /\ d.kids[1].name = WRAP_NAME
         THEN d.kids[2].name
    ELSE IF d.kind = "Call" THEN d.kids[1].name
    ELSE d.name

\* The docstring of a definition; the definitions of the model have none.
Docstring(tree) == "None"

\* A variant whose execution applies no decorator (sensitivity of C30).
ExecDef_bare(tree, custom_locals) ==
    [kind |-> "function", tree |-> tree,
     identity |-> [name |-> tree.name, qualname |-> <<tree.name>>, doc |-> Docstring(tree)],
     inner |-> [name |-> tree.name, qualname |-> <<tree.name>>, doc |-> Docstring(tree)],
     wraps |-> SelectSeq([x \in 1..Len(tree.decorator_list) |-> DecoName(tree.decorator_list[x])],
                         LAMBDA n : n \in {"classmethod", "staticmethod"}),
     kwdefaults |-> [x \in 1..Len(tree.kwonlyargs) |-> custom_locals[tree.kw_defaults[x].name]],
     applied |-> <<>>]

\* exec(recompiled, f_globals, custom_locals); custom_locals[f_name]: the
\* def statement binds the wrapper as the keyword default and applies the
\* decorators left on the definition, last one first. The unit is run as
\* a module body, so the function's qualified name is its name. A
\* classmethod or staticmethod object takes a copy of the name, qualified
\* name and docstring of what it wraps when it is made, and keeps the
\* function as __wrapped__ (`wraps`); the other decorators of the model
\* return the object they are given.
ExecDef(tree, custom_locals) ==
    [kind |-> "function", tree |-> tree,
     identity |-> [name |-> tree.name, qualname |-> <<tree.name>>, doc |-> Docstring(tree)],
     inner |-> [name |-> tree.name, qualname |-> <<tree.name>>, doc |-> Docstring(tree)],
     wraps |-> SelectSeq([x \in 1..Len(tree.decorator_list) |-> DecoName(tree.decorator_list[x])],
                         LAMBDA n : n \in {"classmethod", "staticmethod"}),
     kwdefaults |-> [x \in 1..Len(tree.kwonlyargs) |-> custom_locals[tree.kw_defaults[x].name]],
     applied |-> [x \in 1..Len(tree.decorator_list) |->
                    DecoName(tree.decorator_list[Len(tree.decorator_list) + 1 - x])]]

\* The name, qualified name and docstring of the target function.
IdentityOf(target_func) ==
    [name |-> target_func.name, qualname |-> target_func.qualname, doc |-> target_func.doc]

\* A variant that copies onto the returned object (sensitivity of C18).
update_wrapper_returned(func, target_func) ==
    [func EXCEPT !.identity = IdentityOf(target_func)]

\* `nested = _new_func; while hasattr(nested, "__wrapped__"): nested =
\* nested.__wrapped__; functools.update_wrapper(nested, target_func)`: the
\* identity goes onto the innermost function, which is the returned object
\* when nothing wraps it.
update_wrapper(func, target_func) ==
    [func EXCEPT !.inner = IdentityOf(target_func),
                 !.identity = IF func.wraps = <<>> THEN IdentityOf(target_func) ELSE @]

\* The rewrite_details dict after the call.
UpdateDetails(rewrite_details) ==
    IF rewrite_details.isNone THEN rewrite_details
    ELSE [rewrite_details EXCEPT !.keys = @ \cup
            {"original_func", "original_source", "new_source"}]

\* rewrite_function after its closure check: [err, steps, func, details].
RewriteSteps(target_func, transformers, custom_locals, rewrite_details) ==
    Bind(FunctionRewriter(target_func), LAMBDA rw0 :
      IF rw0.err # ""
      THEN [err |-> rw0.err, steps |-> rw0.steps, func |-> NoFunc,
            details |-> rewrite_details]
      ELSE Bind(TransformAndCompile(rw0, transformers), LAMBDA rw :
             IF rw.err # ""
             THEN [err |-> rw.err, steps |-> rw.steps, func |-> NoFunc,
                   details |-> rewrite_details]
             ELSE [err |-> "",
                   steps |-> rw.steps \o <<"exec", "update_wrapper">>,
                   func |-> update_wrapper(ExecDef(rw.tree, custom_locals), target_func),
                   details |-> UpdateDetails(rewrite_details)]))

\* A variant that looks at the closure after the rewrite (sensitivity of C6).
rewrite_function_latecheck(target_func, transformers, custom_locals, rewrite_details) ==
    Bind(RewriteSteps(target_func, transformers, custom_locals, rewrite_details), LAMBDA r :
      IF r.err = "" /\ target_func.closure # {}
      THEN [r EXCEPT !.err = "ValueError:closure", !.func = NoFunc]
      ELSE r)

\* rewrite_function: [err, steps, func, details].
rewrite_function(target_func, transformers, custom_locals, rewrite_details) ==
    IF target_func.closure # {}
    THEN [err |-> "ValueError:closure", steps |-> <<>>, func |-> NoFunc,
          details |-> rewrite_details]
    ELSE RewriteSteps(target_func, transformers, custom_locals, rewrite_details)

\* The callable names of the builtin namespace when a module is loaded.
BuiltinCalls == {<<"int">>, <<"range">>, <<"sum">>, <<"globals">>, <<"locals">>, <<"ValueError">>}

\* The blacklist handed to the transformer: the caller's set object,
\* extended in place with the callable names of target_func.__builtins__
\* when builtins are ignored. The variant before it hands the caller's
\* set on as given (sensitivity of C15).
FullBlacklist_given(target_func, ignore_builtins, blacklist) == blacklist

\* A variant that adds the builtins only to a set the caller supplied
\* (sensitivity of C27).
FullBlacklist_supplied(target_func, ignore_builtins, blacklist) ==
    IF ignore_builtins /\ ~blacklist.isNone
    THEN SetOf(blacklist.elems \cup target_func.builtins) ELSE blacklist

FullBlacklist(target_func, ignore_builtins, blacklist) ==
    IF ignore_builtins THEN SetOf(blacklist.elems \cup target_func.builtins) ELSE blacklist

\* rewrite_wrap_calls_func: the result of rewrite_function, with the
\* caller's blacklist object as the call leaves it.
rewrite_wrap_calls_func(target_func, wrapper, decorator_name, ignore_builtins, blacklist, whitelist, rewrite_details) ==
    Bind(WrapCallsTransformer(WRAP_NAME, decorator_name,
                              FullBlacklist(target_func, ignore_builtins, blacklist), whitelist),
         LAMBDA T :
      Bind(IF T.err # ""
           THEN [err |-> T.err, steps |-> <<>>, func |-> NoFunc, details |-> rewrite_details]
           ELSE rewrite_function(target_func, <<T>>, [n \in {WRAP_NAME} |-> wrapper],
                                 rewrite_details),
           LAMBDA r :
        [err |-> r.err, steps |-> r.steps, func |-> r.func, details |-> r.details,
         blacklist |-> IF blacklist.isNone THEN blacklist
                       ELSE FullBlacklist(target_func, ignore_builtins, blacklist),
         T |-> T]))

\* --------------------------------------------- running a function's code
\* The values of a run.
VInt(n) == [t |-> "int", n |-> n]
VNone == [t |-> "none"]
VStr(tok) == [t |-> "str", s |-> tok]
VObj(path) == [t |-> "obj", path |-> path]
VNames(S) == [t |-> "names", s |-> S]
VGlobals(frame) == [t |-> "globals", frame |-> frame]
VList(items) == [t |-> "list", items |-> items]
VGen(elt, var, items, env) == [t |-> "gen", elt |-> elt, var |-> var, items |-> items, env |-> env]
VWrapper(kind) == [t |-> "wrapper", kind |-> kind]
VExc(name) == [t |-> "excobj", name |-> name]
VLambda(body, env) == [t |-> "lambda", body |-> body, env |-> env]
VFunc(tree, kwdefaults, env) == [t |-> "func", tree |-> tree, kwdefaults |-> kwdefaults, env |-> env]
\* The object the module's global name of the target is bound to once the
\* decorator returned: the new function, inside inner_wrapper when a
\* profiler decorated it (`profiled`).
VDecorated(tree, kwdefaults, profiled) ==
    [t |-> "decorated", tree |-> tree, kwdefaults |-> kwdefaults, profiled |-> profiled]

\* The integer a numeric literal stands for.
Digits == <<"0", "1", "2", "3">>
ConstVal(tok) ==
    IF \E d \in 1..Len(Digits) : Digits[d] = tok
    THEN VInt((CHOOSE d \in 1..Len(Digits) : Digits[d] = tok) - 1)
    ELSE VStr(tok)

\* What an event shows of a value: a generator by the items it will run over.
Show(v) ==
    CASE v.t = "gen" -> [t |-> "gen", items |-> v.items]
      [] v.t = "lambda" -> [t |-> "lambda"]
      [] v.t = "func" -> [t |-> "func", name |-> v.tree.name]
      [] OTHER -> v
ShowAll(vs) == [x \in 1..Len(vs) |-> Show(vs[x])]

PathOf(v) ==
    IF v.t = "obj" THEN v.path
    ELSE IF v.t \in {"func", "decorated"} THEN <<v.tree.name>> ELSE <<v.t>>
\* __qualname__ of a callable, as far as the run tells callables apart.
FnName(v) == LET p == PathOf(v) IN p[Len(p)]

\* The result of evaluating: the events so far, the value, the exception
\* raised ("" for none) and the line of this frame the exception passed.
R(ev, val, exc, line) == [ev |-> ev, val |-> val, exc |-> exc, line |-> line]

\* The local variables of a wrapper frame (`__call, *args, **kwargs`).
WrapperLocals == {"__call", "args", "kwargs"}

RECURSIVE Eval(_, _), EvalSeq(_, _), Apply(_, _, _, _, _), SumGen(_, _, _, _)
RECURSIVE ExecBody(_, _, _, _)

\* The first locals of a call of a function made from `tree`: the
\* parameters and the keyword-only arguments with their defaults.
Locals0(tree, kwdefaults, args) ==
    [n \in {tree.params[x] : x \in 1..Len(tree.params)}
              \cup {tree.kwonlyargs[x] : x \in 1..Len(tree.kwonlyargs)} |->
        IF \E x \in 1..Len(tree.params) : tree.params[x] = n
        THEN args[CHOOSE x \in 1..Len(tree.params) : tree.params[x] = n]
        ELSE kwdefaults[CHOOSE x \in 1..Len(tree.kwonlyargs) : tree.kwonlyargs[x] = n]]

\* The events of a run: a callable entered and left, a recording wrapper
\* entered and its `finally` reached.
CallEvent(fv, args, kwn, via) ==
    [k |-> "call", fn |-> FnName(fv), args |-> ShowAll(args), kw |-> kwn, via |-> via]
EndEvent(fv, exc, via) ==
    [k |-> IF exc = "" THEN "ret" ELSE "exc", fn |-> FnName(fv), via |-> via]
InvokeEvent(fv) == [k |-> "invoke", fn |-> FnName(fv)]
FinallyEvent(fv, exc) == [k |-> "finally", fn |-> FnName(fv), raised |-> exc # ""]
StartEvent(callee) == [k |-> "start", fn |-> FnName(callee)]
RecordEvent(callee, exc) == [k |-> "record", fn |-> FnName(callee), raised |-> exc # ""]

\* A variant that records after the call instead of in a `finally`
\* (sensitivity of C9).
_record_call_time_nofinally(callee, args, kwn) ==
    Bind(Apply(callee, args, kwn, WrapperLocals, "wrapper"), LAMBDA r :
      [r EXCEPT !.ev = <<StartEvent(callee)>> \o @
                         \o (IF r.exc = "" THEN <<RecordEvent(callee, r.exc)>> ELSE <<>>)])

\* A variant that keeps the callee's exception to itself (sensitivity of
\* C16).
_record_call_time_swallow(callee, args, kwn) ==
    Bind(Apply(callee, args, kwn, WrapperLocals, "wrapper"), LAMBDA r :
      [r EXCEPT !.exc = "",
                !.ev = <<StartEvent(callee)>> \o @ \o <<RecordEvent(callee, r.exc)>>])

\* _record_call_time: time `__call(*args, **kwargs)`, record in `finally`.
_record_call_time(callee, args, kwn) ==
    Bind(Apply(callee, args, kwn, WrapperLocals, "wrapper"), LAMBDA r :
      [r EXCEPT !.ev = <<StartEvent(callee)>> \o @ \o <<RecordEvent(callee, r.exc)>>])

\* The wrapper's body around `__call(*args, **kwargs)`.
ApplyWrapper(kind, callee, args, kwn) ==
    CASE kind = "raise" -> R(<<>>, VNone, "ValueError", 0)
      [] kind = "identity" -> Apply(callee, args, kwn, WrapperLocals, "wrapper")
      [] OTHER -> _record_call_time(callee, args, kwn)

\* What a callable of the target's globals or builtins returns or raises.
Behave(name, args, locals, via) ==
    CASE name = "int" -> R(<<>>, args[1], "", 0)
      [] name = "range" -> R(<<>>, VList([x \in 1..args[1].n |-> x - 1]), "", 0)
      [] name = "globals" ->
            R(<<>>, VGlobals(IF via = "direct" THEN "target" ELSE "wrapper"), "", 0)
      [] name = "locals" -> R(<<>>, VNames(locals), "", 0)
      [] name = "secondary_with_exc" -> R(<<>>, VNone, "ValueError", 0)
      [] name = "ValueError" -> R(<<>>, VExc("ValueError"), "", 0)
      [] name = "get_int" -> R(<<>>, VObj(<<"int">>), "", 0)
      [] name = "c_1" -> R(<<>>, VInt(0), "", 0)
      [] name = "c_2" -> R(<<>>, VInt(1), "", 0)
      [] name = "A" -> R(<<>>, VObj(<<"A()">>), "", 0)
      [] OTHER -> R(<<>>, VNone, "", 0)

\* The names a frame of the decorated function resolves besides its
\* locals: the function's own global name.
Globals(fv) == (fv.tree.name :> fv)

\* Calling the decorated function through its global name: inner_wrapper,
\* if there is one, is entered and its `finally` reached around the body
\* of the new function.
CallDecorated(fv, args) ==
    Bind(ExecBody(fv.tree.kids, 1, Locals0(fv.tree, fv.kwdefaults, args) @@ Globals(fv), <<>>),
         LAMBDA r :
           IF fv.profiled
           THEN [r EXCEPT !.ev = <<InvokeEvent(fv)>> \o @ \o <<FinallyEvent(fv, r.exc)>>]
           ELSE r)

\* Calling a callable from a frame whose local names are `locals`.
Apply(fv, args, kwn, locals, via) ==
    IF fv.t \notin {"obj", "lambda", "func", "decorated"} THEN R(<<>>, VNone, "TypeError", 0)
    ELSE Bind(CASE fv.t = "lambda" -> Eval(fv.body, fv.env)
                [] fv.t = "decorated" -> CallDecorated(fv, args)
                [] fv.t = "func" ->
                     ExecBody(fv.tree.kids, 1,
                              Locals0(fv.tree, fv.kwdefaults, args) @@ fv.env, <<>>)
                [] fv.t = "obj" /\ FnName(fv) = "sum" /\ args[1].t = "gen" ->
                     SumGen(args[1], 1, 0, <<>>)
                [] OTHER -> Behave(FnName(fv), args, locals, via),
              LAMBDA r :
                R(<<CallEvent(fv, args, kwn, via)>> \o r.ev \o <<EndEvent(fv, r.exc, via)>>,
                  r.val, r.exc, 0))

\* sum() running a generator: each item evaluates the element expression
\* in the generator's frame.
SumGen(gen, x, total, ev) ==
    IF x > Len(gen.items) THEN R(ev, VInt(total), "", 0)
    ELSE Bind(Eval(gen.elt, (gen.var :> VInt(gen.items[x])) @@ gen.env), LAMBDA r :
           IF r.exc # "" THEN R(ev \o r.ev, VNone, r.exc, 0)
           ELSE SumGen(gen, x + 1, total + (IF r.val.t = "int" THEN r.val.n ELSE 0),
                       ev \o r.ev))

\* Evaluating a list of expressions left to right: [ev, vals, exc, line].
EvalSeq(nodes, env) ==
    IF nodes = <<>> THEN [ev |-> <<>>, vals |-> <<>>, exc |-> "", line |-> 0]
    ELSE Bind(Eval(Head(nodes), env), LAMBDA h :
           IF h.exc # "" THEN [ev |-> h.ev, vals |-> <<>>, exc |-> h.exc, line |-> h.line]
           ELSE Bind(EvalSeq(Tail(nodes), env), LAMBDA t :
                  [ev |-> h.ev \o t.ev, vals |-> <<h.val>> \o t.vals, exc |-> t.exc,
                   line |-> t.line]))

\* The call itself, once callee and arguments are evaluated.
EvalCall(node, vals, env) ==
    IF vals[1].t = "wrapper"
    THEN ApplyWrapper(vals[1].kind, vals[2], SubSeq(vals, 3, Len(vals)), node.kw)
    ELSE Apply(vals[1], Tail(vals), node.kw, DOMAIN env, "direct")

Eval(node, env) ==
    CASE node.kind = "Name" ->
            R(<<>>, IF node.name \in DOMAIN env THEN env[node.name] ELSE VObj(<<node.name>>), "", 0)
      [] node.kind = "Constant" -> R(<<>>, ConstVal(node.name), "", 0)
      [] node.kind = "Lambda" -> R(<<>>, VLambda(node.kids[1], env), "", 0)
      [] OTHER ->
            Bind(EvalSeq(IF node.kind = "GeneratorExp" THEN <<node.kids[2]>> ELSE node.kids, env),
                 LAMBDA vs :
              IF vs.exc # "" THEN R(vs.ev, VNone, vs.exc, vs.line)
              ELSE CASE node.kind = "Attribute" ->
                          R(vs.ev, VObj(PathOf(vs.vals[1]) \o <<node.name>>), "", 0)
                     [] node.kind = "Subscript" ->
                          R(vs.ev, VObj(PathOf(vs.vals[1]) \o <<"[]">>), "", 0)
                     [] node.kind = "GeneratorExp" ->
                          R(vs.ev, VGen(node.kids[1], node.name,
                                        IF vs.vals[1].t = "list" THEN vs.vals[1].items ELSE <<>>,
                                        env), "", 0)
                     [] node.kind = "Call" ->
                          Bind(EvalCall(node, vs.vals, env), LAMBDA r :
                            R(vs.ev \o r.ev, r.val, r.exc,
                              IF r.exc # "" THEN node.lineno ELSE 0)))

\* One statement that is not a def: its expression is evaluated.
ExecStmt(s, r, stmts, x, env, ev) ==
    IF r.exc # "" THEN R(ev \o r.ev, VNone, r.exc, r.line)
    ELSE CASE s.kind = "Return" -> R(ev \o r.ev, Show(r.val), "", 0)
           [] s.kind = "Raise" ->
                R(ev \o r.ev, VNone,
                  IF r.val.t = "excobj" THEN r.val.name ELSE "TypeError", s.lineno)
           [] s.kind = "Assign" ->
                ExecBody(stmts, x + 1, (s.name :> r.val) @@ env, ev \o r.ev)
           [] OTHER -> ExecBody(stmts, x + 1, env, ev \o r.ev)

\* The statements of a body from x on: [ev, val, exc, line].  A nested
\* def binds its name to a function whose keyword defaults are evaluated
\* in the enclosing frame.
ExecBody(stmts, x, env, ev) ==
    IF x > Len(stmts) THEN R(ev, VNone, "", 0)
    ELSE IF stmts[x].kind = "FunctionDef"
    THEN Bind(EvalSeq(stmts[x].kw_defaults, env), LAMBDA d :
           ExecBody(stmts, x + 1,
                    (stmts[x].name :> VFunc(stmts[x], d.vals, env)) @@ env, ev \o d.ev))
    ELSE ExecStmt(stmts[x], Eval(stmts[x].kids[1], env), stmts, x, env, ev)

\* Calling a function object made from `tree` with positional `args`.
CallFunc(tree, kwdefaults, args) ==
    ExecBody(tree.kids, 1, Locals0(tree, kwdefaults, args), <<>>)

\* The target function as Python compiled it from its file: the node on
\* line r of the source is on line firstlineno + r - 1 of the file.
OriginalCode(target_func) == increment_lineno(target_func.source.tree, target_func.firstlineno - 1)

\* ------------------------------------------------------ the target functions
\* Token sequences of the call names and filter patterns used below.
TA == <<"a", ".", "b", "[", "0", "]", ".", "c", "[">>
P_c2 == TA \o <<"c", "]", ".", "c_2">>
P_c2_w == TA \o <<"*", "]", ".", "c_2">>
P_c1_w == TA \o <<"*", "]", ".", "c_1">>
P_c2_ww == <<"a", ".", "b", "[", "*", "]", ".", "c", "[", "*", "]", ".", "c_2">>
P_c1_wc == <<"a", ".", "b", "[", "*", "]", ".", "c", "[", "c", "]", ".", "c_1">>
P_am_w == <<"a", "[", "*", "]", ".", "m">>
P_am_0 == <<"a", "[", "0", "]", ".", "m">>
P_am_bw == <<"a", "[", "b", "[", "*", "]", "]", ".", "m">>
P_am_x == <<"a", "[", "*", "]", "]", ".", "m">>

\* a.b[0].c["c"].<attr>
Chain(attr, l) ==
    Attr(Sub(Attr(Sub(Attr(Nm("a", l), "b", l), Const("0", l), l), "c", l), Const("c", l), l), attr, l)

\* test_rewrite_basic.example_function / test_flat_profiler / performance.py
BodyExample(b) ==
    << ExprS(Call(Nm("sum", b+1),
                  <<Gen(Call(Nm("int", b+1), <<Nm("v", b+1)>>, b+1), "v",
                        Call(Nm("range", b+1), <<Nm("count", b+1)>>, b+1), b+1)>>, b+1), b+1),
       ExprS(CallKw(Nm("other", b+2), <<Const("0", b+2)>>, <<"val2">>,
                    <<Call(Nm("int", b+2), <<Nm("count", b+2)>>, b+2)>>, b+2), b+2),
       Ret(Call(Nm("secondary", b+3), <<>>, b+3), b+3) >>

\* test_ignore_calls.complex_blacklist
BodyComplex(b) ==
    << Assign("a", Call(Nm("A", b+1), <<>>, b+1), b+1),
       ExprS(Call(Chain("c_1", b+2), <<>>, b+2), b+2),
       Ret(Call(Chain("c_2", b+3), <<>>, b+3), b+3) >>

\* test_traceback.func_with_inner_exc
BodyInnerExc(b) ==
    << ExprS(Call(Nm("secondary_no_exc", b+1), <<>>, b+1), b+1),
       RaiseS(Call(Nm("ValueError", b+2), <<Const("TestErr", b+2)>>, b+2), b+2) >>

\* test_traceback.func_with_deeper_exc, the call laid out over two lines.
BodyDeeperExc(b) ==
    << ExprS(Call(Nm("secondary_with_exc", b+1),
                  <<Call(Nm("int", b+2), <<Nm("count", b+2)>>, b+2)>>, b+1), b+1),
       Ret(Const("1", b+3), b+3) >>

\* A body that looks at its namespaces.
BodyNamespace(b) ==
    << ExprS(Call(Nm("globals", b+1), <<>>, b+1), b+1),
       ExprS(Call(Nm("int", b+2), <<Nm("count", b+2)>>, b+2), b+2),
       Ret(Call(Nm("locals", b+3), <<>>, b+3), b+3) >>

\* test_flat_profiler.custom_below_callback
BodyProfile(b) ==
    << ExprS(Call(Nm("delay_func", b+1), <<Nm("count", b+1)>>, b+1), b+1),
       Ret(Call(Nm("sum", b+2),
                <<Gen(Call(Nm("int", b+2), <<Nm("x", b+2)>>, b+2), "x",
                      Call(Nm("range", b+2), <<Const("3", b+2)>>, b+2), b+2)>>, b+2), b+2) >>

\* A call whose callee is a call: get_int()(count).
BodyCallee(b) ==
    << Ret(Call(Call(Nm("get_int", b+1), <<>>, b+1), <<Nm("count", b+1)>>, b+1), b+1) >>

\* Subscript keys: a[b[0]].m(), a[0].m(), a[v].m()
BodyNestedKey(b) ==
    << ExprS(Call(Attr(Sub(Nm("a", b+1), Sub(Nm("b", b+1), Const("0", b+1), b+1), b+1),
                       "m", b+1), <<>>, b+1), b+1),
       ExprS(Call(Attr(Sub(Nm("a", b+2), Const("0", b+2), b+2), "m", b+2), <<>>, b+2), b+2),
       Ret(Call(Attr(Sub(Nm("a", b+3), Nm("v", b+3), b+3), "m", b+3), <<>>, b+3), b+3) >>

\* A body with a nested def, itself decorated with `decos`.
BodyNestedDef(b, decos) ==
    << FunctionDef("g", <<>>, decos,
                   << Ret(Call(Nm("int", b + Len(decos) + 2), <<Const("1", b + Len(decos) + 2)>>,
                               b + Len(decos) + 2), b + Len(decos) + 2) >>,
                   b + Len(decos) + 1),
       Ret(Call(Nm("g", b + Len(decos) + 3), <<>>, b + Len(decos) + 3), b + Len(decos) + 3) >>

\* The decorator lines above a definition, one decorator per line.
EngineDeco(name, l) == CallKw(Nm(name, l), <<>>, <<"wrapper">>, <<Nm("w", l)>>, l)
DecosPlain == << EngineDeco("wrap_calls", 1) >>
DecosAbove == << Nm("unrelated_decorator", 1), EngineDeco("wrap_calls", 2) >>
DecosBelow == << EngineDeco("wrap_calls", 1),
                 Call(Nm("factory", 2), <<Call(Nm("int", 2), <<Const("3", 2)>>, 2)>>, 2) >>
DecosAlias == << EngineDeco("wc", 1) >>
DecosDotted == << CallKw(Attr(Nm("recompyle", 1), "wrap_calls", 1), <<>>, <<"wrapper">>,
                         <<Nm("w", 1)>>, 1) >>
DecosStacked == << EngineDeco("wrap_calls", 1), EngineDeco("wrap_calls", 2) >>
\* `@module.deco` above, `@module.deco()` below the engine's decorator.
DecosDottedAbove == << Attr(Nm("module", 1), "deco", 1), EngineDeco("wrap_calls", 2) >>
DecosDottedBelow == << EngineDeco("wrap_calls", 1),
                       Call(Attr(Nm("module", 2), "deco", 2), <<>>, 2) >>
DecosMethod(kind) == << Nm(kind, 1), EngineDeco("wrap_calls", 2) >>

\* A source whose definition line follows its decorator lines.
Source(decos, body) ==
    FunctionDef("f", <<"count">>, decos, body, Len(decos) + 1)

\* The definitions the model decorates: the source, the decorator name the
\* engine is told to strip, the patterns filters are drawn from, and the
\* filter sets of the tests.
Definition(tree, dec_name, patterns, given) ==
    [tree |-> tree, dec_name |-> dec_name, patterns |-> patterns, given |-> given]

Definitions ==
    { Definition(Source(DecosPlain, BodyExample(2)), "wrap_calls",
                 {<<"int">>, <<"secondary">>, <<"zzz">>}, {}),
      Definition(Source(DecosPlain, BodyComplex(2)), "wrap_calls",
                 {<<"A">>, P_c2, P_c2_w, P_c1_w, P_c2_ww, P_c1_wc},
                 {SetOf({<<"A">>, P_c2}), SetOf({<<"A">>, P_c2_w})}),
      Definition(Source(DecosPlain, BodyInnerExc(2)), "wrap_calls", {<<"ValueError">>}, {}),
      Definition(Source(DecosPlain, BodyDeeperExc(2)), "wrap_calls",
                 {<<"secondary_with_exc">>}, {}),
      Definition(Source(DecosPlain, BodyNamespace(2)), "wrap_calls",
                 {<<"globals">>, <<"locals">>, <<"int">>}, {}),
      Definition(Source(DecosPlain, BodyCallee(2)), "wrap_calls", {<<"get_int">>}, {}),
      Definition(Source(DecosPlain, BodyNestedKey(2)), "wrap_calls",
                 {P_am_w, P_am_0, P_am_bw, P_am_x}, {}),
      Definition(Source(DecosPlain, BodyNestedDef(2, <<>>)), "wrap_calls", {<<"g">>}, {}),
      Definition(Source(DecosPlain, BodyNestedDef(2, <<EngineDeco("wrap_calls", 3)>>)),
                 "wrap_calls", {<<"g">>}, {}),
      Definition(Source(<<>>, BodyNestedDef(1, <<>>)), NoDeco, {<<"g">>}, {}),
      Definition(Source(<<>>, BodyInnerExc(1)), NoDeco, {<<"ValueError">>}, {}),
      Definition(Source(DecosAbove, BodyDeeperExc(3)), "wrap_calls", {<<"int">>}, {}),
      Definition(Source(DecosBelow, BodyInnerExc(3)), "wrap_calls", {<<"int">>}, {}),
      Definition(Source(DecosAlias, BodyInnerExc(2)), "wrap_calls", {<<"int">>}, {}),
      Definition(Source(DecosDotted, BodyInnerExc(2)), "wrap_calls", {<<"int">>}, {}),
      Definition(Source(DecosStacked, BodyDeeperExc(3)), "wrap_calls", {<<"int">>}, {}),
      Definition(Source(DecosDottedAbove, BodyInnerExc(3)), "wrap_calls", {}, {}),
      Definition(Source(DecosDottedBelow, BodyInnerExc(3)), "wrap_calls", {}, {}),
      Definition(Source(DecosMethod("classmethod"), BodyCallee(3)), "wrap_calls", {}, {}),
      Definition(Source(DecosMethod("staticmethod"), BodyInnerExc(3)), "wrap_calls", {}, {}) }

\* The definitions decorated with flat_profile.
DecosProfile == << EngineDeco("flat_profile", 1) >>
ProfileDefinitions ==
    { Definition(Source(DecosProfile, BodyProfile(2)), "flat_profile", {<<"int">>}, {}),
      Definition(Source(DecosProfile, BodyDeeperExc(2)), "flat_profile", {<<"int">>}, {}),
      Definition(Source(DecosProfile, BodyInnerExc(2)), "flat_profile",
                 {<<"ValueError">>}, {}) }

\* The objects handed to the engine: a function at module level, a
\* function defined in a class body or inside another function (indented,
\* without or with captured variables), a function whose source file is
\* not available, and a callable that is not a function. `scope` is what
\* the qualified name has in front of the name.
Placements ==
    { [indent |-> 0, closure |-> {}, isFunction |-> TRUE, hasSource |-> TRUE, scope |-> <<>>],
      [indent |-> 4, closure |-> {}, isFunction |-> TRUE, hasSource |-> TRUE,
       scope |-> <<"ExampleClass">>],
      [indent |-> 4, closure |-> {"x"}, isFunction |-> TRUE, hasSource |-> TRUE,
       scope |-> <<"make", "<locals>">>],
      [indent |-> 0, closure |-> {}, isFunction |-> TRUE, hasSource |-> FALSE, scope |-> <<>>],
      [indent |-> 0, closure |-> {}, isFunction |-> FALSE, hasSource |-> FALSE, scope |-> <<>>] }

TargetFunc(def, place, firstlineno) ==
    [name |-> def.tree.name, qualname |-> place.scope \o <<def.tree.name>>,
     doc |-> Docstring(def.tree),
     isFunction |-> place.isFunction, hasSource |-> place.hasSource,
     closure |-> place.closure, firstlineno |-> firstlineno, builtins |-> BuiltinCalls,
     source |-> [indent |-> place.indent, tree |-> def.tree]]

\* The filter sets a caller passes: None, a set of at most MaxFilter
\* patterns, or one of the sets given with the definition.
FilterSets(def) ==
    {NoneSet} \cup def.given
      \cup {SetOf(S) : S \in {X \in SUBSET def.patterns : Cardinality(X) <= MaxFilter}}

\* ------------------------------------------------------------------ state
VARIABLES
    target,           \* the function object being decorated
    opts,             \* the arguments of wrap_calls / rewrite_wrap_calls_func
    blacklist,        \* the caller's blacklist object, opts.blacklist at first
    rewrite_details,  \* the caller's rewrite_details dict
    pc,               \* "defined", "decorated" or "failed"
    err,              \* the exception decoration raised, "" for none
    steps,            \* the steps of rewrite_function that ran
    tfm,              \* the transformer that was constructed
    new_func,         \* the function decoration returned
    outer,            \* what a second engine decorator above made of it
    result,           \* the last call: [arg, orig, new]
    prof,             \* the arguments of flat_profile
    clock,            \* time.perf_counter()
    _call_times,      \* the timing map of the flat_profile decoration
    frames,           \* the `start` of each timing frame that is running
    trace,            \* the timing events of the invocation in progress
    pos,              \* how many of them have happened
    stamps,           \* the clock at each of them
    count,            \* the invocations of the decorated function so far
    outcome,          \* how the last one ended: total, callbacks, map
    carried,          \* what the timing map held when the invocation began
    ppc,              \* "idle" or "running"
    threads           \* the invocations two threads run at the same time

engine_vars == <<target, opts, blacklist, rewrite_details, pc, err, steps, tfm, new_func, outer>>
profile_vars == <<prof, clock, _call_times, frames, trace, pos, stamps, count, outcome, carried,
                  ppc>>
vars == <<engine_vars, result, profile_vars, threads>>

NoResult == [arg |-> -1]
NoDetails == [isNone |-> TRUE, keys |-> {}]
NoOuter == [err |-> "none"]
NoProf == [time_limit |-> 0, below_callback |-> "None", above_callback |-> "None"]
EmptyMap == [n \in {} |-> <<>>]
NoOutcome == [total |-> -1]
ModuleLevel == {pl \in Placements : pl.indent = 0 /\ pl.isFunction /\ pl.hasSource}

\* What both specifications start from: a definition read, nothing run.
InitEngine(defs, places, firstlines, builtins, wrappers, details) ==
    \E def \in defs, place \in places, fl \in firstlines :
      /\ target = TargetFunc(def, place, fl)
      /\ \E bl \in FilterSets(def), wl \in FilterSets(def), ib \in builtins, w \in wrappers :
           /\ (Truthy(bl) /\ Truthy(wl)) => (bl = wl)
           /\ opts = [wrapper |-> VWrapper(w), decorator_name |-> def.dec_name,
                      ignore_builtins |-> ib, whitelist |-> wl, blacklist |-> bl]
           /\ blacklist = bl
      /\ rewrite_details \in details
      /\ pc = "defined"
      /\ err = ""
      /\ steps = <<>>
      /\ tfm = [err |-> "none"]
      /\ new_func = NoFunc
      /\ outer = NoOuter
      /\ result = NoResult

\* The threads that call the decorated function, and a thread that is
\* not in a call of it.
Threads == {"a", "b"}
IdleThread ==
    [ppc |-> "idle", frames |-> <<>>, trace |-> <<>>, pos |-> 0, mine |-> EmptyMap,
     live |-> EmptyMap, outcome |-> NoOutcome]

InitProfileVars ==
    /\ threads = [t \in Threads |-> IdleThread]
    /\ clock = 0
    /\ _call_times = EmptyMap
    /\ frames = <<>>
    /\ trace = <<>>
    /\ pos = 0
    /\ stamps = <<>>
    /\ count = 0
    /\ outcome = NoOutcome
    /\ carried = EmptyMap
    /\ ppc = "idle"

Init ==
    /\ InitEngine(Definitions, Placements, 1..MaxFirstLine, BOOLEAN, {"identity", "raise"},
                  {NoDetails, [isNone |-> FALSE, keys |-> {}]})
    /\ prof = NoProf
    /\ InitProfileVars

\* The decorator is applied: wrap_calls(...)(target), or a direct call of
\* rewrite_wrap_calls_func.
Decorated(r) ==
    /\ pc' = IF r.err = "" THEN "decorated" ELSE "failed"
    /\ err' = r.err
    /\ steps' = r.steps
    /\ tfm' = r.T
    /\ new_func' = r.func
    /\ rewrite_details' = r.details
    /\ blacklist' = r.blacklist
    /\ UNCHANGED <<target, opts, outer, threads>>

Decorate ==
    /\ pc = "defined"
    /\ Decorated(rewrite_wrap_calls_func(target, opts.wrapper, opts.decorator_name,
                                         opts.ignore_builtins, blacklist, opts.whitelist,
                                         rewrite_details))
    /\ UNCHANGED <<result, profile_vars>>

\* The line a code object compiled from `tree` starts at: the first
\* decorator's, or the line of `def`.
co_firstlineno(tree) ==
    IF tree.decorator_list = <<>> THEN tree.lineno ELSE tree.decorator_list[1].lineno

\* A function the engine returned, as the target of another rewrite: its
\* code object names the file of the original definition, and
\* inspect.getsource finds there the original lines from co_firstlineno on
\* (one decorator per line).
Recompiled(func, target_func) ==
    Bind(co_firstlineno(func.tree) - target_func.firstlineno, LAMBDA skipped :
      [target_func EXCEPT
         !.firstlineno = co_firstlineno(func.tree),
         !.source.tree = increment_lineno(
             [@ EXCEPT !.decorator_list = SubSeq(@, skipped + 1, Len(@))], 0 - skipped)])

\* The engine decorators written above the definition.
EngineDecorators ==
    {x \in 1..Len(target.source.tree.decorator_list) :
        IsDecoTarget(opts.decorator_name, target.source.tree.decorator_list[x]) = "True"}

DecoratedAgain(r) ==
    /\ outer' = [err |-> r.err, func |-> r.func, steps |-> r.steps]
    /\ blacklist' = r.blacklist
    /\ rewrite_details' = r.details

\* Two engine decorators are stacked on the definition: the upper one is
\* applied to the function the lower one returned.
DecorateAgain ==
    /\ pc = "decorated" /\ outer = NoOuter
    /\ opts.decorator_name # NoDeco
    /\ Cardinality(EngineDecorators) > 1
    /\ DecoratedAgain(rewrite_wrap_calls_func(Recompiled(new_func, target), opts.wrapper,
                                              opts.decorator_name, opts.ignore_builtins,
                                              blacklist, opts.whitelist, rewrite_details))
    /\ UNCHANGED <<target, opts, pc, err, steps, tfm, new_func, result, profile_vars,
                   threads>>

\* A callable is bound in the builtin namespace under a name that was not
\* one of its callables: `builtins.secondary = ...`.
BindBuiltin(n) ==
    /\ pc = "decorated"
    /\ n \notin target.builtins
    /\ target' = [target EXCEPT !.builtins = @ \cup {n}]
    /\ UNCHANGED <<opts, blacklist, rewrite_details, pc, err, steps, tfm, new_func, outer,
                   result, profile_vars, threads>>

\* The returned function is called; the same call of the original function
\* is recorded beside it.
Called(arg) ==
    result' = [arg |-> arg,
               orig |-> CallFunc(OriginalCode(target), <<>>, <<VInt(arg)>>),
               new |-> CallFunc(new_func.tree, new_func.kwdefaults, <<VInt(arg)>>)]

CallFunction(arg) ==
    /\ pc = "decorated"
    /\ Called(arg)
    /\ UNCHANGED <<engine_vars, profile_vars, threads>>

Next ==
    \/ Decorate
    \/ DecorateAgain
    \/ BindBuiltin(<<"secondary">>)
    \/ \E arg \in 0..MaxArg : CallFunction(arg)

Spec == Init /\ [][Next]_vars

\* --------------------------------------- rewrite_function, called directly
\* The generic rewriter takes the transformers in a list and applies them
\* in the order given before it compiles once. A caller that strips its
\* decorator and wraps the calls in separate passes hands it a
\* RemoveDecoratorTransformer for the decorator, transformers that remove
\* nothing, and a WrapCallsTransformer that removes nothing; with one pass
\* it hands it the WrapCallsTransformer that rewrite_wrap_calls_func builds.
TransformerList(decorator_name, bl, wl, n) ==
    IF n = 1 THEN <<WrapCallsTransformer(WRAP_NAME, decorator_name, bl, wl)>>
    ELSE <<RemoveDecoratorTransformer(decorator_name)>>
           \o [x \in 1..(n - 2) |-> RemoveDecoratorTransformer(NoDeco)]
           \o <<WrapCallsTransformer(WRAP_NAME, NoDeco, bl, wl)>>

RewriteDefinitions ==
    { Definition(Source(DecosPlain, BodyInnerExc(2)), "wrap_calls", {}, {}),
      Definition(Source(DecosPlain, BodyDeeperExc(2)), "wrap_calls", {}, {}),
      Definition(Source(DecosAbove, BodyDeeperExc(3)), "wrap_calls", {}, {}) }

InitRewrite ==
    /\ InitEngine(RewriteDefinitions, Placements, 1..MaxFirstLine, {FALSE},
                  {"identity", "raise"}, {NoDetails})
    /\ prof = NoProf
    /\ InitProfileVars
    /\ ~Truthy(opts.whitelist) /\ ~Truthy(blacklist)

\* A decorator built on rewrite_function is applied to the definition.
RewriteFunction(n) ==
    /\ pc = "defined"
    /\ Bind(TransformerList(opts.decorator_name, blacklist, opts.whitelist, n), LAMBDA ts :
         Bind(rewrite_function(target, ts, [k \in {WRAP_NAME} |-> opts.wrapper],
                               rewrite_details),
              LAMBDA r :
                Decorated([err |-> r.err, steps |-> r.steps, func |-> r.func,
                           details |-> r.details, blacklist |-> blacklist,
                           T |-> ts[Len(ts)]])))
    /\ UNCHANGED <<result, profile_vars>>

NextRewrite ==
    \/ \E n \in 1..MaxTransformers : RewriteFunction(n)
    \/ \E arg \in 0..MaxArg : CallFunction(arg)

SpecRewrite == InitRewrite /\ [][NextRewrite]_vars

\* ---------------------------------------------------------------- flat_profile
\* A variant that puts the duration in place of the list (sensitivity of
\* C19).
RecordTime_replace(times, name, duration) ==
    [n \in DOMAIN times \cup {name} |-> IF n = name THEN <<duration>> ELSE times[n]]

\* `_call_times[name].append(duration)` on the defaultdict.
RecordTime(times, name, duration) ==
    IF name \in DOMAIN times THEN [times EXCEPT ![name] = Append(@, duration)]
    ELSE times @@ (name :> <<duration>>)

\* A variant that wants exactly one callback (sensitivity of C12).
flat_profile_exactlyone(time_limit, below_callback, above_callback, ignore_builtins, bl, whitelist, details, func) ==
    IF (below_callback = "None") = (above_callback = "None")
    THEN [err |-> "ValueError:callbacks", steps |-> <<>>, func |-> NoFunc,
          details |-> details, blacklist |-> bl, T |-> [err |-> "none"]]
    ELSE rewrite_wrap_calls_func(func, VWrapper("record"), "flat_profile", ignore_builtins,
                                 bl, whitelist, details)

\* flat_profile(...)(func): the callbacks are checked, then _measure_calls
\* rewrites func with _record_call_time as the wrapper.
flat_profile(time_limit, below_callback, above_callback, ignore_builtins, bl, whitelist, details, func) ==
    IF below_callback = "None" /\ above_callback = "None"
    THEN [err |-> "ValueError:callbacks", steps |-> <<>>, func |-> NoFunc,
          details |-> details, blacklist |-> bl, T |-> [err |-> "none"]]
    ELSE rewrite_wrap_calls_func(func, VWrapper("record"), "flat_profile", ignore_builtins,
                                 bl, whitelist, details)

\* What a profiler callback does with its arguments: the callbacks of the
\* tests keep them; a callback is user code, which may also add a key to
\* the map it was handed, remove one, or raise.
CallbackKinds == {"keep", "add", "remove", "raise"}

\* A variant that hands the callback the profiler's own dict (sensitivity
\* of C17).
copy_same(times) == [same |-> TRUE, map |-> times]

\* `_call_times.copy()`: another dict with the same items. `same` tells
\* whether the callback's dict is the profiler's own object.
copy(times) == [same |-> FALSE, map |-> times]

\* The callback's dict after the callback ran.
CallbackEdit(kind, map) ==
    IF kind = "add" THEN map @@ ("callback" :> <<>>)
    ELSE IF kind = "remove" /\ DOMAIN map # {}
    THEN [n \in DOMAIN map \ {CHOOSE k \in DOMAIN map : TRUE} |-> map[n]]
    ELSE map

\* A variant whose second branch does not compare the duration
\* (sensitivity of C10).
inner_wrapper_elif(p, duration, times) ==
    IF p.below_callback # "None" /\ duration < p.time_limit
    THEN <<[callback |-> "below", total |-> duration, limit |-> p.time_limit,
           times |-> copy(times).map, same |-> copy(times).same]>>
    ELSE IF p.above_callback # "None"
    THEN <<[callback |-> "above", total |-> duration, limit |-> p.time_limit,
           times |-> copy(times).map, same |-> copy(times).same]>>
    ELSE <<>>

\* The callbacks the `finally` of inner_wrapper invokes, each with a copy
\* of the timing map.
inner_wrapper(p, duration, times) ==
    IF p.below_callback # "None" /\ duration < p.time_limit
    THEN <<[callback |-> "below", total |-> duration, limit |-> p.time_limit,
           times |-> copy(times).map, same |-> copy(times).same]>>
    ELSE IF p.above_callback # "None" /\ duration >= p.time_limit
    THEN <<[callback |-> "above", total |-> duration, limit |-> p.time_limit,
           times |-> copy(times).map, same |-> copy(times).same]>>
    ELSE <<>>

\* The events of a run at which a timing frame reads the clock.
TimingEvents(ev) == SelectSeq(ev, LAMBDA e : e.k \in {"start", "record", "invoke", "finally"})

InitProfile ==
    /\ InitEngine(ProfileDefinitions, ModuleLevel, {MaxFirstLine}, {FALSE}, {"record"},
                  {NoDetails})
    /\ prof \in [time_limit : {0, MaxLimit}, below_callback : {"None", "below"},
                 above_callback : {"None", "above"}]
    /\ InitProfileVars
    /\ opts.whitelist = NoneSet
    /\ blacklist = NoneSet \/ Truthy(blacklist)

DecorateProfile ==
    /\ pc = "defined"
    /\ Decorated(flat_profile(prof.time_limit, prof.below_callback, prof.above_callback,
                              opts.ignore_builtins, blacklist, opts.whitelist,
                              rewrite_details, target))
    /\ UNCHANGED <<result, profile_vars>>

\* inner_wrapper is called: it reads the clock and calls the new function.
Invoke(arg) ==
    /\ pc = "decorated" /\ ppc = "idle"
    /\ count < MaxCalls
    /\ count' = count + 1
    /\ outcome' = NoOutcome
    /\ Called(arg)
    /\ trace' = TimingEvents(result'.new.ev)
    /\ pos' = 0
    /\ stamps' = <<>>
    /\ frames' = <<[fn |-> "inner_wrapper", start |-> clock]>>
    /\ carried' = _call_times
    /\ ppc' = "running"
    /\ UNCHANGED <<engine_vars, prof, clock, _call_times, threads>>

\* Time passes.
Tick ==
    /\ ppc = "running"
    /\ clock < MaxClock
    /\ clock' = clock + 1
    /\ UNCHANGED <<engine_vars, result, prof, _call_times, frames, trace, pos, stamps,
                   count, outcome, carried, ppc, threads>>

\* _record_call_time is entered: `start = time.perf_counter()`.
WrapperStart ==
    /\ ppc = "running" /\ pos < Len(trace)
    /\ trace[pos + 1].k = "start"
    /\ frames' = Append(frames, [fn |-> trace[pos + 1].fn, start |-> clock])
    /\ pos' = pos + 1
    /\ stamps' = Append(stamps, clock)
    /\ UNCHANGED <<engine_vars, result, prof, clock, _call_times, trace, count, outcome,
                   carried, ppc, threads>>

\* The `finally` of _record_call_time, after the callee returned or raised.
WrapperFinally ==
    /\ ppc = "running" /\ pos < Len(trace)
    /\ trace[pos + 1].k = "record"
    /\ _call_times' = RecordTime(_call_times, frames[Len(frames)].fn,
                                 clock - frames[Len(frames)].start)
    /\ frames' = SubSeq(frames, 1, Len(frames) - 1)
    /\ pos' = pos + 1
    /\ stamps' = Append(stamps, clock)
    /\ UNCHANGED <<engine_vars, result, prof, clock, trace, count, outcome, carried, ppc,
                   threads>>

\* A variant that leaves the map as it is (sensitivity of C25).
AfterCallback_noclear(called, kind, times, exc) ==
    IF called = <<>>
    THEN [how |-> "none", kept |-> EmptyMap, seen |-> times, left |-> times, exc |-> exc]
    ELSE [how |-> kind, kept |-> CallbackEdit(kind, called[1].times), seen |-> times,
          left |-> times, exc |-> IF kind = "raise" THEN "CallbackError" ELSE exc]

\* The rest of the `finally` of inner_wrapper once the callback was chosen:
\* the callback runs on the dict it was handed, and `_call_times.clear()`
\* follows unless the callback raised. `kept` is the callback's dict in the
\* end, `seen` the profiler's dict between the callback and the clearing,
\* `left` the profiler's dict when inner_wrapper is left, `exc` the exception
\* that leaves inner_wrapper.
AfterCallback(called, kind, times, exc) ==
    IF called = <<>>
    THEN [how |-> "none", kept |-> EmptyMap, seen |-> times, left |-> EmptyMap, exc |-> exc]
    ELSE Bind(CallbackEdit(kind, called[1].times), LAMBDA edited :
         Bind(IF called[1].same THEN edited ELSE times, LAMBDA mine :
           IF kind = "raise"
           THEN [how |-> kind, kept |-> edited, seen |-> mine, left |-> mine,
                 exc |-> "CallbackError"]
           ELSE [how |-> kind, kept |-> IF called[1].same THEN EmptyMap ELSE edited,
                 seen |-> mine, left |-> EmptyMap, exc |-> exc]))

Finished(total, called, after) ==
    /\ outcome' = [total |-> total, raised |-> result.new.exc # "", called |-> called,
                   recorded |-> _call_times, carried |-> carried, how |-> after.how,
                   kept |-> after.kept, seen |-> after.seen, exc |-> after.exc]
    /\ _call_times' = after.left

\* The `finally` of inner_wrapper, after the new function returned or raised.
Finish(kind) ==
    /\ ppc = "running" /\ pos = Len(trace)
    /\ Bind(inner_wrapper(prof, clock - frames[1].start, _call_times), LAMBDA called :
            Finished(clock - frames[1].start, called,
                     AfterCallback(called, kind, _call_times, result.new.exc)))
    /\ frames' = <<>>
    /\ carried' = EmptyMap
    /\ ppc' = "idle"
    /\ UNCHANGED <<engine_vars, result, prof, clock, trace, pos, stamps, count, threads>>

NextProfile ==
    \/ DecorateProfile
    \/ \E arg \in {MaxArg} : Invoke(arg)
    \/ Tick
    \/ WrapperStart
    \/ WrapperFinally
    \/ \E kind \in CallbackKinds : Finish(kind)

SpecProfile == InitProfile /\ [][NextProfile]_vars

\* ------------------------------------- a decorated function that calls itself
\* The body of a function that calls itself through its global name:
\*     int(count)
\*     return sum(f(0) for x in range(count))
BodyRecursive(b) ==
    << ExprS(Call(Nm("int", b+1), <<Nm("count", b+1)>>, b+1), b+1),
       Ret(Call(Nm("sum", b+2),
                <<Gen(Call(Nm("f", b+2), <<Const("0", b+2)>>, b+2), "x",
                      Call(Nm("range", b+2), <<Nm("count", b+2)>>, b+2), b+2)>>, b+2), b+2) >>

RecursiveDefinitions ==
    { Definition(Source(DecosProfile, BodyRecursive(2)), "flat_profile", {}, {}) }

InitRecursion ==
    /\ InitEngine(RecursiveDefinitions, ModuleLevel, {MaxFirstLine}, {FALSE}, {"record"},
                  {NoDetails})
    /\ prof \in [time_limit : {MaxLimit}, below_callback : {"None", "below"},
                 above_callback : {"None", "above"}]
    /\ InitProfileVars
    /\ opts.whitelist = NoneSet /\ blacklist = NoneSet

\* A call of a function made from `tree` in the module where the target's
\* name is bound to the decorated function.
CallInModule(tree, kwdefaults, args) ==
    ExecBody(tree.kids, 1,
             Locals0(tree, kwdefaults, args)
               @@ Globals(VDecorated(new_func.tree, new_func.kwdefaults, TRUE)), <<>>)

\* inner_wrapper is called from outside, once: it reads the clock and calls
\* the new function, whose calls of its own name arrive at inner_wrapper
\* again.
InvokeRecursive(arg) ==
    /\ pc = "decorated" /\ ppc = "idle"
    /\ count = 0
    /\ count' = count + 1
    /\ outcome' = NoOutcome
    /\ result' = [arg |-> arg,
                  orig |-> CallInModule(OriginalCode(target), <<>>, <<VInt(arg)>>),
                  new |-> CallInModule(new_func.tree, new_func.kwdefaults, <<VInt(arg)>>)]
    /\ trace' = TimingEvents(result'.new.ev)
    /\ pos' = 0
    /\ stamps' = <<>>
    /\ frames' = <<[fn |-> "inner_wrapper", start |-> clock]>>
    /\ carried' = _call_times
    /\ ppc' = "running"
    /\ UNCHANGED <<engine_vars, prof, clock, _call_times, threads>>

\* inner_wrapper is entered by a call the running invocation makes.
NestedInvoke ==
    /\ ppc = "running" /\ pos < Len(trace)
    /\ trace[pos + 1].k = "invoke"
    /\ frames' = Append(frames, [fn |-> "inner_wrapper", start |-> clock])
    /\ pos' = pos + 1
    /\ stamps' = Append(stamps, clock)
    /\ UNCHANGED <<engine_vars, result, prof, clock, _call_times, trace, count, outcome,
                   carried, ppc, threads>>

\* The callbacks of the nested invocations return.
NestedCallbackKinds == CallbackKinds \ {"raise"}

\* The `finally` of inner_wrapper in a nested invocation: the callback is
\* chosen by this invocation's duration and handed a copy of the one map,
\* which is then cleared.
NestedFinally(kind) ==
    /\ ppc = "running" /\ pos < Len(trace)
    /\ trace[pos + 1].k = "finally"
    /\ _call_times' =
          AfterCallback(inner_wrapper(prof, clock - frames[Len(frames)].start, _call_times),
                        kind, _call_times, "").left
    /\ frames' = SubSeq(frames, 1, Len(frames) - 1)
    /\ pos' = pos + 1
    /\ stamps' = Append(stamps, clock)
    /\ UNCHANGED <<engine_vars, result, prof, clock, trace, count, outcome, carried, ppc,
                   threads>>

NextRecursion ==
    \/ DecorateProfile
    \/ \E arg \in {MaxArg} : InvokeRecursive(arg)
    \/ Tick
    \/ WrapperStart
    \/ WrapperFinally
    \/ NestedInvoke
    \/ \E kind \in NestedCallbackKinds : NestedFinally(kind)
    \/ \E kind \in CallbackKinds : Finish(kind)

SpecRecursion == InitRecursion /\ [][NextRecursion]_vars

\* ------------------------------------------- two threads, one decorated function
\* _call_times belongs to the decoration: every thread that calls the
\* decorated function runs inner_wrapper and _record_call_time on the same
\* dict. A thread's `mine` is what it has recorded in its invocation,
\* its `live` what it has recorded since the dict was last cleared.
ThreadDefinitions ==
    { Definition(Source(DecosProfile, BodyDeeperExc(2)), "flat_profile", {}, {}),
      Definition(Source(DecosProfile, BodyInnerExc(2)), "flat_profile", {}, {}) }

InitThreads ==
    /\ InitEngine(ThreadDefinitions, ModuleLevel, {MaxFirstLine}, {FALSE}, {"record"},
                  {NoDetails})
    /\ prof \in [time_limit : 0..MaxLimit, below_callback : {"None", "below"},
                 above_callback : {"None", "above"}]
    /\ InitProfileVars
    /\ opts.whitelist = NoneSet /\ blacklist = NoneSet

single_vars == <<result, frames, trace, pos, stamps, outcome, carried, ppc>>

\* A thread calls the decorated function: inner_wrapper reads the clock and
\* calls the new function.
ThreadInvoke(t, arg) ==
    /\ pc = "decorated" /\ threads[t].ppc = "idle"
    /\ count < MaxCalls
    /\ count' = count + 1
    /\ threads' = [threads EXCEPT ![t] =
          [ppc |-> "running", frames |-> <<[fn |-> "inner_wrapper", start |-> clock]>>,
           trace |-> TimingEvents(CallFunc(new_func.tree, new_func.kwdefaults,
                                           <<VInt(arg)>>).ev),
           pos |-> 0, mine |-> EmptyMap, live |-> @.live, outcome |-> NoOutcome]]
    /\ UNCHANGED <<engine_vars, single_vars, prof, clock, _call_times>>

ThreadTick ==
    /\ \E t \in Threads : threads[t].ppc = "running"
    /\ clock < MaxClock
    /\ clock' = clock + 1
    /\ UNCHANGED <<engine_vars, single_vars, prof, _call_times, count, threads>>

\* The thread enters _record_call_time.
ThreadStart(t) ==
    /\ threads[t].ppc = "running" /\ threads[t].pos < Len(threads[t].trace)
    /\ threads[t].trace[threads[t].pos + 1].k = "start"
    /\ threads' = [threads EXCEPT
          ![t].frames = Append(@, [fn |-> threads[t].trace[threads[t].pos + 1].fn,
                                   start |-> clock]),
          ![t].pos = @ + 1]
    /\ UNCHANGED <<engine_vars, single_vars, prof, clock, _call_times, count>>

Top(t) == threads[t].frames[Len(threads[t].frames)]

\* The thread reaches the `finally` of _record_call_time.
ThreadFinally(t) ==
    /\ threads[t].ppc = "running" /\ threads[t].pos < Len(threads[t].trace)
    /\ threads[t].trace[threads[t].pos + 1].k = "record"
    /\ _call_times' = RecordTime(_call_times, Top(t).fn, clock - Top(t).start)
    /\ threads' = [threads EXCEPT
          ![t].mine = RecordTime(@, Top(t).fn, clock - Top(t).start),
          ![t].live = RecordTime(@, Top(t).fn, clock - Top(t).start),
          ![t].frames = SubSeq(@, 1, Len(@) - 1),
          ![t].pos = @ + 1]
    /\ UNCHANGED <<engine_vars, single_vars, prof, clock, count>>

ThreadFinished(t, total, called, after) ==
    /\ threads' = [u \in Threads |->
          IF u = t
          THEN [IdleThread EXCEPT
                  !.trace = threads[t].trace, !.pos = threads[t].pos,
                  !.outcome = [total |-> total, called |-> called,
                               recorded |-> _call_times, mine |-> threads[t].mine,
                               own |-> threads[t].live,
                               foreign |-> [v \in Threads \ {t} |-> threads[v].live]]]
          ELSE [threads[u] EXCEPT !.live = EmptyMap]]
    /\ _call_times' = after.left

\* The thread reaches the `finally` of inner_wrapper; its callback keeps
\* the dict it is handed.
ThreadFinish(t) ==
    /\ threads[t].ppc = "running" /\ threads[t].pos = Len(threads[t].trace)
    /\ Bind(inner_wrapper(prof, clock - threads[t].frames[1].start, _call_times),
            LAMBDA called :
              ThreadFinished(t, clock - threads[t].frames[1].start, called,
                             AfterCallback(called, "keep", _call_times, "")))
    /\ UNCHANGED <<engine_vars, single_vars, prof, clock, count>>

NextThreads ==
    \/ DecorateProfile
    \/ \E t \in Threads : ThreadInvoke(t, 0)
    \/ ThreadTick
    \/ \E t \in Threads : ThreadStart(t)
    \/ \E t \in Threads : ThreadFinally(t)
    \/ \E t \in Threads : ThreadFinish(t)

SpecThreads == InitThreads /\ [][NextThreads]_vars

\* ------------------------------------------------------------------ properties
\* The call nodes of a body in pre-order; a wrapper call stands where the
\* call it replaced stood.
RECURSIVE CallsOf(_), CallsOfSeq(_)
CallsOf(node) == (IF node.kind = "Call" THEN <<node>> ELSE <<>>) \o CallsOfSeq(node.kids)
CallsOfSeq(nodes) ==
    IF nodes = <<>> THEN <<>> ELSE CallsOf(Head(nodes)) \o CallsOfSeq(Tail(nodes))

OrigCalls == CallsOfSeq(target.source.tree.kids)
NewCalls == CallsOfSeq(new_func.tree.kids)
IsWrapped(c) == c.kids[1].kind = "Name" /\ c.kids[1].name = WRAP_NAME

\* The identity of a callee and its wildcard expansions, read off the
\* expression: every subscript key is either kept or replaced by "*".
RECURSIVE Expansions(_)
Expansions(node) ==
    CASE node.kind \in {"Constant", "Name"} -> {<<node.name>>}
      [] node.kind = "Attribute" -> {b \o <<".", node.name>> : b \in Expansions(node.kids[1])}
      [] node.kind = "Subscript" ->
            {b \o <<"[">> \o k \o <<"]">> :
                b \in Expansions(node.kids[1]), k \in Expansions(node.kids[2]) \cup {<<"*">>}}
      [] OTHER -> {}

HasWildcard(entry) == \E x \in 1..Len(entry) : entry[x] = "*"

\* The calls a run made, in order: callable, positional and keyword arguments.
CallsMade(ev) ==
    [x \in 1..Len(SelectSeq(ev, LAMBDA e : e.k = "call")) |->
        [fn |-> SelectSeq(ev, LAMBDA e : e.k = "call")[x].fn,
         args |-> SelectSeq(ev, LAMBDA e : e.k = "call")[x].args,
         kw |-> SelectSeq(ev, LAMBDA e : e.k = "call")[x].kw]]

\* C1: with a wrapper that only does `return __call(*args, **kwargs)`, the
\* rewritten function returns the same value or raises the same exception
\* as the original and makes the same calls in the same order with the
\* same positional and keyword arguments.
C1_CallTransparent ==
    (pc = "decorated" /\ result # NoResult /\ opts.wrapper.kind = "identity"
        /\ target.closure = {})
    => /\ result.new.val = result.orig.val
       /\ result.new.exc = result.orig.exc
       /\ CallsMade(result.new.ev) = CallsMade(result.orig.ev)

\* C2: under a blacklist, a call whose identity or any wildcard expansion
\* of it is in the blacklist is not routed through the wrapper; under a
\* whitelist, a call with no such name in the whitelist is not routed
\* through the wrapper.
C2_FilterSafety ==
    (pc = "decorated" /\ Len(NewCalls) = Len(OrigCalls))
    => \A i \in 1..Len(NewCalls) :
         /\ (Truthy(tfm.blacklist)
               /\ Expansions(OrigCalls[i].kids[1]) \cap tfm.blacklist.elems # {})
            => ~IsWrapped(NewCalls[i])
         /\ (Truthy(tfm.whitelist)
               /\ Expansions(OrigCalls[i].kids[1]) \cap tfm.whitelist.elems = {})
            => ~IsWrapped(NewCalls[i])

\* C3: a filter entry with `[*]` in place of a subscript key matches a call
\* whatever key stands at that position (a literal, a name, or a key that
\* itself holds a subscript): a blacklisted match is left unwrapped, a
\* whitelisted match is wrapped; and blacklist {"A", "a.b[0].c[*].c_2"}
\* leaves a.b[0].c["c"].c_1() wrapped and a.b[0].c["c"].c_2() unwrapped.
C3_WildcardAnyKey ==
    (pc = "decorated" /\ Len(NewCalls) = Len(OrigCalls))
    => /\ \A i \in 1..Len(NewCalls) :
            \A e \in Expansions(OrigCalls[i].kids[1]) :
               HasWildcard(e) =>
                 /\ (Truthy(tfm.blacklist) /\ e \in tfm.blacklist.elems)
                       => ~IsWrapped(NewCalls[i])
                 /\ (Truthy(tfm.whitelist) /\ e \in tfm.whitelist.elems)
                       => IsWrapped(NewCalls[i])
       /\ (target.source.tree.kids = BodyComplex(2)
             /\ tfm.blacklist = SetOf({<<"A">>, P_c2_w}))
          => /\ ~IsWrapped(NewCalls[1])
             /\ IsWrapped(NewCalls[2])
             /\ ~IsWrapped(NewCalls[3])

\* C4: under every filter configuration no call of globals() or locals()
\* is routed through the wrapper, neither in the rewritten tree nor in a run.
C4_NamespaceCallsNeverWrapped ==
    /\ pc = "decorated"
       => \A i \in 1..Len(NewCalls) :
            IsWrapped(NewCalls[i])
            => ~(NewCalls[i].kids[2].kind = "Name"
                   /\ NewCalls[i].kids[2].name \in {"globals", "locals"})
    /\ result # NoResult
       => \A x \in 1..Len(result.new.ev) :
            (result.new.ev[x].k = "call" /\ result.new.ev[x].fn \in {"globals", "locals"})
            => result.new.ev[x].via = "direct"

C4_Witness ==
    /\ pc = "decorated" /\ result # NoResult
    /\ Truthy(tfm.whitelist) /\ <<"globals">> \in tfm.whitelist.elems
    /\ \E x \in 1..Len(result.new.ev) :
          result.new.ev[x].k = "call" /\ result.new.ev[x].fn = "globals"

\* C5: with a non-empty blacklist (the caller's, with the builtins when they
\* are ignored) and a non-empty whitelist, decoration raises ValueError and
\* returns no function; with at most one of the two non-empty the
\* transformer is constructed without error.
C5_ListsExclusive ==
    pc # "defined"
    => /\ (Truthy(FullBlacklist(target, opts.ignore_builtins, blacklist)) /\ Truthy(opts.whitelist))
          => (err = "ValueError:lists" /\ new_func = NoFunc /\ steps = <<>>)
       /\ ~(Truthy(FullBlacklist(target, opts.ignore_builtins, blacklist)) /\ Truthy(opts.whitelist))
          => (tfm.err = "" /\ err # "ValueError:lists")

C5_Witness ==
    /\ pc = "failed" /\ err = "ValueError:lists"
    /\ Truthy(blacklist) /\ Truthy(opts.whitelist) /\ ~opts.ignore_builtins

\* The exceptions rewrite_function can raise that are ValueErrors.
RewriteValueErrors == {"ValueError:closure", "ValueError:source", "ValueError:decorator"}

\* The same function object defined at module level.
AtModuleLevel(f) == [f EXCEPT !.source = Dedent(@)]

\* C6, as stated: rewrite_function raises ValueError exactly when the
\* closure is non-empty, before any step of the rewrite and leaving
\* rewrite_details as it was.
C6_ValueErrorIffClosure ==
    (pc # "defined" /\ err # "ValueError:lists")
    => /\ (err \in RewriteValueErrors) <=> (target.closure # {})
       /\ target.closure # {}
          => (steps = <<>> /\ new_func = NoFunc /\ rewrite_details.keys = {})

\* C6, amended: the closure ValueError is raised exactly when the closure
\* is non-empty, before any step and leaving rewrite_details as it was;
\* with an empty closure the only ValueErrors are those of a missing source
\* and of a decorator that is not found; a function defined inside another
\* one that captures nothing is rewritten as at module level.
C6_ClosureError ==
    (pc # "defined" /\ err # "ValueError:lists")
    => /\ (err = "ValueError:closure") <=> (target.closure # {})
       /\ target.closure # {}
          => (steps = <<>> /\ new_func = NoFunc /\ rewrite_details.keys = {})
       /\ (target.closure = {} /\ err \in RewriteValueErrors)
          => \/ (err = "ValueError:source" /\ ~target.hasSource)
             \/ (err = "ValueError:decorator" /\ opts.decorator_name # NoDeco)
       /\ (target.closure = {} /\ target.source.indent > 0)
          => Bind(rewrite_function(AtModuleLevel(target), <<tfm>>,
                                   [n \in {WRAP_NAME} |-> opts.wrapper], rewrite_details),
                  LAMBDA r : r.err = err /\ r.func = new_func)

C6_Witness ==
    /\ pc = "failed" /\ err = "ValueError:closure"
    /\ ~rewrite_details.isNone /\ target.hasSource

\* The decorators on every definition under a node.
RECURSIVE NDecos(_), NDecosSeq(_)
NDecos(node) ==
    (IF node.kind = "FunctionDef" THEN Len(node.decorator_list) ELSE 0) + NDecosSeq(node.kids)
NDecosSeq(nodes) == IF nodes = <<>> THEN 0 ELSE NDecos(Head(nodes)) + NDecosSeq(Tail(nodes))

StrippedOne ==
    /\ opts.decorator_name # NoDeco
    /\ NDecos(target.source.tree) - NDecos(new_func.tree) = 1

\* The statements, definitions and calls under a node with their lines.
RECURSIVE LinesOf(_), LinesOfSeq(_)
LinesOf(node) ==
    (IF node.kind \in {"Call", "FunctionDef", "Expr", "Return", "Raise", "Assign"}
     THEN <<[kind |-> node.kind, lineno |-> node.lineno]>> ELSE <<>>) \o LinesOfSeq(node.kids)
LinesOfSeq(nodes) ==
    IF nodes = <<>> THEN <<>> ELSE LinesOf(Head(nodes)) \o LinesOfSeq(Tail(nodes))

\* C7: when the rewrite strips one decorator line, every statement and call
\* of the recompiled function has the line it has in the original file, and
\* the line a traceback reports for the rewritten function is that of the
\* original file, whether the body, a wrapped callee or the wrapper raises.
C7_OriginalLines ==
    (pc = "decorated" /\ StrippedOne)
    => /\ LinesOf(new_func.tree) = LinesOf(OriginalCode(target))
       /\ (result # NoResult /\ result.new.exc # "")
          => IF opts.wrapper.kind = "identity"
             THEN result.new.exc = result.orig.exc /\ result.new.line = result.orig.line
             ELSE \/ result.new.exc = result.orig.exc /\ result.new.line = result.orig.line
                  \/ \E i \in 1..Len(NewCalls) :
                        /\ IsWrapped(NewCalls[i])
                        /\ result.new.line = CallsOfSeq(OriginalCode(target).kids)[i].lineno

C7_Witness ==
    /\ pc = "decorated" /\ StrippedOne /\ target.firstlineno > 1
    /\ result # NoResult /\ result.new.exc # "" /\ result.orig.exc = ""
    /\ opts.wrapper.kind = "raise"
    /\ result.new.line = target.firstlineno + Len(target.source.tree.decorator_list) + 2

\* A rewritten tree with one level of wrapper calls and of wrapper
\* parameters taken off, line numbers and decorators left aside.
RECURSIVE Unwrap(_)
Unwrap(node) ==
    Bind(IF node.kind = "Call" /\ IsWrapped(node)
         THEN [node EXCEPT !.kids = Tail(@)] ELSE node,
         LAMBDA m :
           IF m.kind = "FunctionDef"
           THEN [m EXCEPT !.lineno = 0, !.decorator_list = <<>>,
                          !.kwonlyargs = SubSeq(@, 1, Len(@) - 1),
                          !.kw_defaults = SubSeq(@, 1, Len(@) - 1),
                          !.kids = [x \in 1..Len(@) |-> Unwrap(@[x])]]
           ELSE [m EXCEPT !.lineno = 0, !.kids = [x \in 1..Len(@) |-> Unwrap(@[x])]])

\* The tree as written, line numbers and decorators left aside.
RECURSIVE Shape(_)
Shape(node) ==
    IF node.kind = "FunctionDef"
    THEN [node EXCEPT !.lineno = 0, !.decorator_list = <<>>,
                      !.kids = [x \in 1..Len(@) |-> Shape(@[x])]]
    ELSE [node EXCEPT !.lineno = 0, !.kids = [x \in 1..Len(@) |-> Shape(@[x])]]

FinishedWrapped(n) ==
    {x \in 1..Len(result.new.ev) :
        /\ result.new.ev[x].k \in {"ret", "exc"}
        /\ result.new.ev[x].via = "wrapper"
        /\ result.new.ev[x].fn = n}

\* The timing events at which a wrapped call of n ended, and the event at
\* which that call began: the last earlier start with as many starts as
\* ends in between.
EndsOf(n) == {j \in 1..Len(trace) : trace[j].k = "record" /\ trace[j].fn = n}
Between(i, j, kind) == Cardinality({x \in (i+1)..(j-1) : trace[x].k = kind})
StartOf(j) ==
    CHOOSE i \in 1..(j-1) :
        /\ trace[i].k = "start" /\ Between(i, j, "start") = Between(i, j, "record")
        /\ \A i2 \in (i+1)..(j-1) :
              ~(trace[i2].k = "start" /\ Between(i2, j, "start") = Between(i2, j, "record"))
NthEnd(n, x) == CHOOSE j \in EndsOf(n) : Cardinality({k \in EndsOf(n) : k < j}) = x - 1

\* The durations of the calls of n, in the order the calls ended.
Durations(n) ==
    [x \in 1..Cardinality(EndsOf(n)) |-> stamps[NthEnd(n, x)] - stamps[StartOf(NthEnd(n, x))]]

\* What the map held under n when the last invocation began.
Carried(n) == IF n \in DOMAIN outcome.carried THEN outcome.carried[n] ELSE <<>>

\* C9: during an invocation of a flat_profile-decorated function every
\* wrapped call that ended (by return or by exception) appended one duration
\* to the list under its callable's name, in the order the calls ended, and
\* no other key was made; the callback gets this map;
\* for `sum(int(x) for x in range(3))` that is one duration for sum, one
\* for range and three for int.
C9_OneDurationPerCall ==
    (ppc = "idle" /\ outcome # NoOutcome)
    => /\ DOMAIN outcome.recorded =
             DOMAIN outcome.carried \cup
             {result.new.ev[x].fn : x \in {y \in 1..Len(result.new.ev) :
                 result.new.ev[y].k \in {"ret", "exc"} /\ result.new.ev[y].via = "wrapper"}}
       /\ \A n \in DOMAIN outcome.recorded :
             /\ Len(outcome.recorded[n]) = Len(Carried(n)) + Cardinality(FinishedWrapped(n))
             /\ outcome.recorded[n] = Carried(n) \o Durations(n)
       /\ \A x \in 1..Len(outcome.called) : outcome.called[x].times = outcome.recorded
       /\ (target.source.tree.kids = BodyProfile(2) /\ outcome.carried = EmptyMap
              /\ ~Truthy(tfm.blacklist) /\ ~Truthy(tfm.whitelist))
          => /\ DOMAIN outcome.recorded = {"delay_func", "sum", "range", "int"}
             /\ Len(outcome.recorded["sum"]) = 1
             /\ Len(outcome.recorded["range"]) = 1
             /\ Len(outcome.recorded["int"]) = 3

C9_Witness ==
    /\ ppc = "idle" /\ outcome # NoOutcome
    /\ outcome.called # <<>>
    /\ "int" \in DOMAIN outcome.called[1].times
    /\ Len(outcome.called[1].times["int"]) = 3
    /\ \E x \in 1..3 : outcome.called[1].times["int"][x] > 0

\* C10: when an invocation ends, by return or by exception, at most one
\* callback has been invoked, once: the below callback if it is not None
\* and total < time_limit, the above callback if it is not None and
\* total >= time_limit, and none when the callback of the side the total
\* falls on is None.
C10_OneCallbackPerSide ==
    (ppc = "idle" /\ outcome # NoOutcome)
    => /\ Len(outcome.called) <= 1
       /\ (outcome.total < prof.time_limit /\ prof.below_callback # "None")
          => (Len(outcome.called) = 1 /\ outcome.called[1].callback = "below")
       /\ (outcome.total >= prof.time_limit /\ prof.above_callback # "None")
          => (Len(outcome.called) = 1 /\ outcome.called[1].callback = "above")
       /\ (outcome.total < prof.time_limit /\ prof.below_callback = "None")
          => outcome.called = <<>>
       /\ (outcome.total >= prof.time_limit /\ prof.above_callback = "None")
          => outcome.called = <<>>
       /\ \A x \in 1..Len(outcome.called) :
             outcome.called[x].total = outcome.total
                /\ outcome.called[x].limit = prof.time_limit

C10_Witness ==
    /\ ppc = "idle" /\ outcome # NoOutcome /\ outcome.raised
    /\ prof.below_callback = "None" /\ prof.above_callback # "None"
    /\ outcome.total < prof.time_limit
    /\ outcome.called = <<>>

\* C11: the timing map is empty whenever no invocation of the decorated
\* function is running, however the last one ended (the body returned, the
\* body or a wrapped call raised, the callback raised); so the map a
\* callback is handed holds the durations of its own invocation only.
C11_MapEmptyBetweenInvocations ==
    /\ (ppc = "idle") => (_call_times = EmptyMap)
    /\ (ppc = "idle" /\ outcome # NoOutcome)
       => \A x \in 1..Len(outcome.called) :
             \A n \in DOMAIN outcome.called[x].times :
                 outcome.called[x].times[n] = Durations(n)

\* C12, as stated: flat_profile succeeds exactly when one of below_callback
\* and above_callback is None and the other is not; with both None and
\* with both given it fails.
C12_ExactlyOneCallback ==
    (pc # "defined")
    => ((pc = "decorated") <=> ((prof.below_callback = "None") # (prof.above_callback = "None")))

\* C12, amended: flat_profile raises its ValueError exactly when both
\* callbacks are None; with one callback or with both (the defaults) it
\* succeeds and decorates the function.
C12_AtLeastOneCallback ==
    (pc # "defined")
    => /\ (err = "ValueError:callbacks")
             <=> (prof.below_callback = "None" /\ prof.above_callback = "None")
       /\ (pc = "decorated")
             <=> (prof.below_callback # "None" \/ prof.above_callback # "None")

C12_Witness ==
    /\ pc = "decorated" /\ err = ""
    /\ prof.below_callback # "None" /\ prof.above_callback # "None"
    /\ ppc = "idle" /\ outcome # NoOutcome /\ Len(outcome.called) = 1

\* C13: when two wrap_calls decorators are stacked on a definition, the
\* second decoration succeeds as the first did, and in the function it
\* returns every call of the body is a wrapper call whose callee argument
\* is again a wrapper call: each call goes through both wrappers.
C13_StackedDecoratorsCompose ==
    (outer # NoOuter)
    => /\ outer.err = ""
       /\ outer.func # NoFunc
       /\ \A c \in {CallsOfSeq(outer.func.tree.kids)[x] :
                       x \in 1..Len(CallsOfSeq(outer.func.tree.kids))} :
             IsWrapped(c) => (c.kids[2].kind = "Call" /\ IsWrapped(c.kids[2]))

\* C14: in the rewritten body every wrapper call has, after the original
\* callee, a second positional argument that is the extras literal (a
\* dict display with the keys ln_range and source), followed by the
\* arguments of the original call.
C14_ExtrasSecondArgument ==
    (pc = "decorated")
    => \A i \in 1..Len(NewCalls) :
          IsWrapped(NewCalls[i])
          => /\ Len(NewCalls[i].kids) >= 3
             /\ NewCalls[i].kids[3].kind = "Dict"
             /\ Len(NewCalls[i].kids) = Len(Unwrap(NewCalls[i]).kids) + 2

\* The callee of the call that stands at place i of the body, as written.
Callee(i) == OrigCalls[i].kids[1]

\* C15: after a decoration with ignore_builtins the transformer's blacklist
\* is the caller's blacklist together with the callable names the builtin
\* namespace had when the function was rewritten; no call of such a name
\* (int, range) is a wrapper call, every call of another plain name that
\* the caller did not blacklist is one (except globals/locals), and
\* binding a builtin afterwards changes neither.
C15_BuiltinsSnapshot ==
    (pc = "decorated" /\ opts.ignore_builtins)
    => /\ ~tfm.blacklist.isNone
       /\ tfm.blacklist.elems = opts.blacklist.elems \cup BuiltinCalls
       /\ ~blacklist.isNone => tfm.blacklist.elems \subseteq blacklist.elems
       /\ \A i \in 1..Len(OrigCalls) :
             (Callee(i).kind = "Name")
             => /\ (<<Callee(i).name>> \in BuiltinCalls) => ~IsWrapped(NewCalls[i])
                /\ (<<Callee(i).name>> \notin BuiltinCalls \cup opts.blacklist.elems)
                      => IsWrapped(NewCalls[i])

C15_Witness ==
    /\ pc = "decorated" /\ opts.ignore_builtins
    /\ target.source.tree.kids = BodyExample(2)
    /\ target.builtins # BuiltinCalls
    /\ opts.blacklist = SetOf({<<"zzz">>})
    /\ result # NoResult
    /\ \E x \in 1..Len(result.new.ev) :
          result.new.ev[x].k = "call" /\ result.new.ev[x].fn = "secondary"
             /\ result.new.ev[x].via = "wrapper"
    /\ \A x \in 1..Len(result.new.ev) :
          (result.new.ev[x].k = "call" /\ result.new.ev[x].fn \in {"int", "range", "sum"})
          => result.new.ev[x].via = "direct"

\* How the callables of a run ended, in order: by return or by exception.
EndsMade(ev) ==
    [x \in 1..Len(SelectSeq(ev, LAMBDA e : e.k \in {"ret", "exc"})) |->
        [k |-> SelectSeq(ev, LAMBDA e : e.k \in {"ret", "exc"})[x].k,
         fn |-> SelectSeq(ev, LAMBDA e : e.k \in {"ret", "exc"})[x].fn]]

\* C16: when an invocation of a flat_profile-decorated function has ended
\* and the callback did not raise, the exception that left inner_wrapper is
\* the one the original function raises for the same argument (none, if it
\* returns), raised at the same line; every callable of the body ended as
\* it does in the original, by return or by the same exception, and was
\* called as often: nothing was caught, replaced or tried again.
C16_ExceptionsPassThrough ==
    (ppc = "idle" /\ outcome # NoOutcome /\ outcome.how # "raise")
    => /\ outcome.exc = result.orig.exc
       /\ result.new.exc = result.orig.exc
       /\ result.new.line = result.orig.line
       /\ outcome.raised = (result.orig.exc # "")
       /\ EndsMade(result.new.ev) = EndsMade(result.orig.ev)
       /\ CallsMade(result.new.ev) = CallsMade(result.orig.ev)

C16_Witness ==
    /\ ppc = "idle" /\ outcome # NoOutcome /\ outcome.how = "keep"
    /\ target.source.tree.kids = BodyDeeperExc(2)
    /\ ~Truthy(tfm.blacklist)
    /\ outcome.exc = "ValueError" /\ result.orig.exc = "ValueError"
    /\ \E x \in 1..Len(result.new.ev) :
          result.new.ev[x].k = "exc" /\ result.new.ev[x].via = "wrapper"

\* C17: the dict a callback is handed has the items of the timing map and
\* is another object: the keys the callback adds to it or removes from it
\* leave the profiler's map as it was recorded, and the clearing of the
\* profiler's map after the callback leaves the callback's dict as the
\* callback left it.
C17_CallbackGetsCopy ==
    (ppc = "idle" /\ outcome # NoOutcome /\ outcome.called # <<>>)
    => /\ outcome.called[1].times = outcome.recorded
       /\ outcome.seen = outcome.recorded
       /\ outcome.kept = CallbackEdit(outcome.how, outcome.recorded)
       /\ (outcome.how # "raise") => (_call_times = EmptyMap)

C17_Witness ==
    /\ ppc = "idle" /\ outcome # NoOutcome /\ outcome.called # <<>>
    /\ outcome.how = "remove"
    /\ Cardinality(DOMAIN outcome.recorded) > 1
    /\ Cardinality(DOMAIN outcome.kept) = Cardinality(DOMAIN outcome.recorded) - 1
    /\ outcome.seen = outcome.recorded
    /\ _call_times = EmptyMap

\* C18, as stated: the object the rewrite returns has the name, the
\* qualified name and the docstring of the target function, also when
\* classmethod or staticmethod remains on the definition.
C18_ReturnedHasIdentity ==
    (pc = "decorated") => (new_func.identity = IdentityOf(target))

\* C18, amended: the innermost function of the object the rewrite returns
\* (the object itself when no classmethod or staticmethod remains) has the
\* name, the qualified name and the docstring of the target function; a
\* returned classmethod or staticmethod object has the target's name and
\* docstring, and as qualified name the bare name.
C18_InnermostHasIdentity ==
    (pc = "decorated")
    => /\ new_func.inner = IdentityOf(target)
       /\ (new_func.wraps = <<>>) => (new_func.identity = IdentityOf(target))
       /\ (new_func.wraps # <<>>)
          => /\ new_func.identity.name = target.name
             /\ new_func.identity.doc = target.doc
             /\ new_func.identity.qualname = <<target.name>>

C18_Witness ==
    /\ pc = "decorated"
    /\ new_func.wraps = <<"classmethod">>
    /\ target.qualname = <<"ExampleClass", "f">>
    /\ new_func.inner.qualname = target.qualname
    /\ result # NoResult

\* The identity of a callee as the contract of the name matcher gives it:
\* a constant is its value without quotes, a name is itself, an attribute
\* is <base>.<attr>, a subscript is <base>[<key>], a call used as a callee
\* has the identity of its own callee; nothing else has an identity.
RECURSIVE Named(_), NameOf(_)
Named(node) ==
    CASE node.kind \in {"Constant", "Name"} -> TRUE
      [] node.kind = "Attribute" -> Named(node.kids[1])
      [] node.kind = "Subscript" -> Named(node.kids[1]) /\ Named(node.kids[2])
      [] node.kind = "Call" -> Named(node.kids[1])
      [] OTHER -> FALSE
NameOf(node) ==
    CASE node.kind \in {"Constant", "Name"} -> <<node.name>>
      [] node.kind = "Attribute" -> NameOf(node.kids[1]) \o <<".", node.name>>
      [] node.kind = "Subscript" ->
            NameOf(node.kids[1]) \o <<"[">> \o NameOf(node.kids[2]) \o <<"]">>
      [] node.kind = "Call" -> NameOf(node.kids[1])

\* C20: when a rewrite with a filter has visited the body, the name
\* resolution of the transformer gave every callee that has an identity
\* under the contract that identity, a call used as a callee included,
\* and the rewrite raised the TypeError of an unknown node exactly when
\* some callee has none.
C20_NameResolution ==
    (/\ pc # "defined" /\ tfm.err = ""
     /\ Truthy(tfm.blacklist) \/ Truthy(tfm.whitelist)
     /\ \E x \in 1..Len(steps) : steps[x] = "transform"
     /\ err \notin {"TypeError:decorator", "ValueError:decorator"})
    => /\ \A i \in 1..Len(OrigCalls) :
             ~IsNamespaceCall(OrigCalls[i])
             => /\ CanBuildName(Callee(i)) = Named(Callee(i))
                /\ Named(Callee(i)) => (_build_name(Callee(i)) = NameOf(Callee(i)))
       /\ (err = "TypeError:call")
             <=> (\E i \in 1..Len(OrigCalls) :
                     ~IsNamespaceCall(OrigCalls[i]) /\ ~Named(Callee(i)))

\* How many durations a map holds under n.
Count(m, n) == IF n \in DOMAIN m THEN Len(m[n]) ELSE 0

\* The durations the other threads had in the map when t's invocation ended.
Foreign(t, n) ==
    Count(threads[t].outcome.foreign[CHOOSE u \in Threads \ {t} : TRUE], n)

\* C19: the timing map is one dict for all threads. At any moment it holds
\* what every thread has recorded since it was last cleared, whichever
\* thread cleared it; so the dict passed to a thread's callback is made of
\* the durations of its own invocation that no other thread's clearing has
\* removed, and of the durations other threads recorded in theirs.
C19_ThreadsShareMap ==
    /\ \A n \in {"int", "secondary_with_exc", "secondary_no_exc", "ValueError"} :
          Count(_call_times, n) = Count(threads["a"].live, n) + Count(threads["b"].live, n)
    /\ \A t \in Threads :
          (threads[t].outcome # NoOutcome)
          => /\ \A n \in DOMAIN threads[t].outcome.recorded :
                   Count(threads[t].outcome.recorded, n)
                      = Count(threads[t].outcome.own, n) + Foreign(t, n)
             /\ \A n \in DOMAIN threads[t].outcome.own :
                   Count(threads[t].outcome.own, n) <= Count(threads[t].outcome.mine, n)
             /\ \A x \in 1..Len(threads[t].outcome.called) :
                   threads[t].outcome.called[x].times = threads[t].outcome.recorded

\* An interleaving of the two invocations in which the callback of one
\* thread got a duration the other thread recorded, and the callback of the
\* other thread then missed a duration of its own invocation, cleared away
\* by the first.
C19_Witness ==
    \E t \in Threads, u \in Threads :
       /\ t # u
       /\ threads[t].outcome # NoOutcome /\ threads[u].outcome # NoOutcome
       /\ threads[t].outcome.called # <<>> /\ threads[u].outcome.called # <<>>
       /\ \E n \in DOMAIN threads[t].outcome.called[1].times : Foreign(t, n) > 0
       /\ \E n \in DOMAIN threads[u].outcome.mine :
             Count(threads[u].outcome.called[1].times, n) < Count(threads[u].outcome.mine, n)

\* The decorators of the target's definition that the removal leaves, as
\* written.
Remaining ==
    SelectSeq(target.source.tree.decorator_list,
              LAMBDA d : IsDecoTarget(opts.decorator_name, d) # "True")

\* C21: after the pass the decorators left on the definition are the ones
\* written, unchanged: no call expression in a remaining decorator (as in
\* `@factory(int(3))`) is replaced by a wrapper call; only calls of the
\* body are.
C21_DecoratorsNotWrapped ==
    (pc = "decorated")
    => /\ Len(new_func.tree.decorator_list) = Len(Remaining)
       /\ \A x \in 1..Len(Remaining) :
             Shape(new_func.tree.decorator_list[x]) = Shape(Remaining[x])
       /\ \A x \in 1..Len(CallsOfSeq(new_func.tree.decorator_list)) :
             ~IsWrapped(CallsOfSeq(new_func.tree.decorator_list)[x])

\* How many transformers the rewrite applied.
Passes == Cardinality({x \in 1..Len(steps) : steps[x] = "transform"})

\* C22: after rewrite_function has applied its transformers, one or
\* several, and compiled once, every statement and call of the new function
\* has the line it has in the original file: the total shift does not
\* depend on how many transformers were applied.
C22_LinesAfterAnySequence ==
    (pc = "decorated" /\ Passes >= 1)
    => LinesOf(new_func.tree) = LinesOf(OriginalCode(target))

\* What the transformer of the rewrite did to the decorator list of the
\* target's definition, from an adjustment of 0.
Removal == RemoveDecorator(tfm, target.source.tree, 0)

\* Some decorator of the definition is the one to strip; every decorator is
\* a bare name or a call of a bare name.
Matches ==
    \E x \in 1..Len(target.source.tree.decorator_list) :
        IsDecoTarget(opts.decorator_name, target.source.tree.decorator_list[x]) = "True"
Supported ==
    \A x \in 1..Len(target.source.tree.decorator_list) :
        IsDecoTarget(opts.decorator_name, target.source.tree.decorator_list[x]) # "TypeError"

DecoNames(decos) == [x \in 1..Len(decos) |-> DecoName(decos[x])]

\* The removal took out the named decorator, kept the others in order and
\* lowered the adjustment by one.
RemovedNamed ==
    /\ Removal.err = ""
    /\ Removal.node.decorator_list = Remaining
    /\ Removal.adj = -1
    /\ (pc = "decorated"
        => DecoNames(new_func.tree.decorator_list) = DecoNames(Remaining))

\* The removal raised ValueError, the list and the adjustment as they were.
RaisedNotFound ==
    /\ Removal.err = "ValueError:decorator"
    /\ Removal.node.decorator_list = target.source.tree.decorator_list
    /\ Removal.adj = 0
    /\ pc = "failed" /\ err = "ValueError:decorator"

RemovedNothing ==
    /\ Removal.err = ""
    /\ Removal.node.decorator_list = target.source.tree.decorator_list
    /\ Removal.adj = 0

\* C23: with a decorator name, the removal takes out the decorator of that
\* name (bare or called), keeps the others in order and lowers the line
\* adjustment by one; when no decorator matches it raises ValueError and the
\* list is unchanged; with no name, list and adjustment are unchanged.
C23_Removal ==
    (Passes >= 1 /\ tfm.err = "")
    => /\ (opts.decorator_name # NoDeco /\ Matches) => RemovedNamed
       /\ (opts.decorator_name # NoDeco /\ ~Matches) => RaisedNotFound
       /\ (opts.decorator_name = NoDeco) => RemovedNothing

\* C23, amended: the same for a definition whose decorators are all bare
\* names or calls of bare names; a decorator of another form makes the
\* removal raise TypeError instead, whether or not one matches.
C23_RemovalSupported ==
    (Passes >= 1 /\ tfm.err = "")
    => /\ (opts.decorator_name # NoDeco /\ Supported /\ Matches) => RemovedNamed
       /\ (opts.decorator_name # NoDeco /\ Supported /\ ~Matches) => RaisedNotFound
       /\ (opts.decorator_name # NoDeco /\ ~Supported)
            => (Removal.err = "TypeError:decorator" /\ err = "TypeError:decorator")
       /\ (opts.decorator_name = NoDeco) => RemovedNothing

C23_W_RemovedKeptOthers ==
    /\ pc = "decorated" /\ opts.decorator_name # NoDeco /\ Matches
    /\ Len(Remaining) >= 1 /\ Removal.adj = -1

\* --------------------------------- shallow_call_profiler of shallow_profiler.py
\* The keyword parameters of rewrite_wrap_calls_func, and the ones without
\* a default.
RewriteParams ==
    {"target_func", "wrapper", "decorator_name", "ignore_builtins", "blacklist",
     "whitelist", "rewrite_details"}
RequiredParams == {"target_func", "wrapper"}

\* Binding the keywords of a call of rewrite_wrap_calls_func.
BindKeywords(keywords) ==
    IF ~(keywords \subseteq RewriteParams) \/ ~(RequiredParams \subseteq keywords)
    THEN "TypeError:keyword" ELSE ""

\* shallow_call_profiler(...)(func): the callbacks are checked, then
\* _measure_calls calls rewrite_wrap_calls_func with the keywords
\* target_func, wrap_call and decorator_name.
shallow_call_profiler(time_limit, below_callback, above_callback, details, func) ==
    IF below_callback = "None" /\ above_callback = "None"
    THEN [err |-> "ValueError:callbacks", steps |-> <<>>, func |-> NoFunc,
          details |-> details, blacklist |-> NoneSet, T |-> [err |-> "none"]]
    ELSE IF BindKeywords({"target_func", "wrap_call", "decorator_name"}) # ""
    THEN [err |-> BindKeywords({"target_func", "wrap_call", "decorator_name"}),
          steps |-> <<>>, func |-> NoFunc, details |-> details, blacklist |-> NoneSet,
          T |-> [err |-> "none"]]
    ELSE rewrite_wrap_calls_func(func, VWrapper("record"), "shallow_call_profiler", FALSE,
                                 NoneSet, NoneSet, details)

\* The callbacks the `finally` of shallow_call_profiler's inner_wrapper
\* invokes for a duration, each with a copy of the timing map.
shallow_inner_wrapper(p, duration, times) ==
    IF p.below_callback # "None" /\ duration < p.time_limit
    THEN <<[callback |-> "below", total |-> duration, limit |-> p.time_limit,
           times |-> copy(times).map, same |-> copy(times).same]>>
    ELSE IF p.above_callback # "None"
    THEN <<[callback |-> "above", total |-> duration, limit |-> p.time_limit,
           times |-> copy(times).map, same |-> copy(times).same]>>
    ELSE <<>>

\* The definitions decorated with shallow_call_profiler.
DecosShallow == << EngineDeco("shallow_call_profiler", 1) >>
ShallowDefinitions ==
    { Definition(Source(DecosShallow, BodyProfile(2)), "shallow_call_profiler", {}, {}),
      Definition(Source(DecosShallow, BodyDeeperExc(2)), "shallow_call_profiler", {}, {}),
      Definition(Source(DecosShallow, BodyInnerExc(2)), "shallow_call_profiler", {}, {}) }

InitShallow ==
    /\ InitEngine(ShallowDefinitions, Placements, 1..MaxFirstLine, {FALSE}, {"record"},
                  {NoDetails})
    /\ prof \in [time_limit : 0..MaxLimit, below_callback : {"None", "below"},
                 above_callback : {"None", "above"}]
    /\ InitProfileVars
    /\ opts.whitelist = NoneSet /\ blacklist = NoneSet

\* The decorator is applied to the definition.
DecorateShallow ==
    /\ pc = "defined"
    /\ Decorated(shallow_call_profiler(prof.time_limit, prof.below_callback,
                                       prof.above_callback, rewrite_details, target))
    /\ UNCHANGED <<result, profile_vars>>

NextShallow == DecorateShallow

SpecShallow == InitShallow /\ [][NextShallow]_vars

LastFinally ==
    IF \E j \in 1..Len(trace) : trace[j].k = "finally"
    THEN CHOOSE j \in 1..Len(trace) :
           trace[j].k = "finally" /\ \A j2 \in (j+1)..Len(trace) : trace[j2].k # "finally"
    ELSE 0
EndsAfterLast(n) == {j \in EndsOf(n) : j > LastFinally}
DurationsAfterLast(n) ==
    SubSeq(Durations(n), Cardinality(EndsOf(n)) - Cardinality(EndsAfterLast(n)) + 1,
           Cardinality(EndsOf(n)))

C26_CallerSetExtendedInPlace ==
    (pc # "defined" /\ ~opts.blacklist.isNone)
    => /\ opts.ignore_builtins
          => /\ ~blacklist.isNone
             /\ opts.blacklist.elems \cup BuiltinCalls \subseteq blacklist.elems
             /\ blacklist.elems \subseteq opts.blacklist.elems \cup target.builtins
             /\ Cardinality(blacklist.elems) > Cardinality(opts.blacklist.elems)
       /\ ~opts.ignore_builtins => blacklist = opts.blacklist

C26_Witness ==
    /\ pc = "decorated" /\ outer # NoOuter
    /\ opts.ignore_builtins /\ ~opts.blacklist.isNone
    /\ <<"int">> \notin opts.blacklist.elems /\ <<"int">> \in blacklist.elems
    /\ <<"secondary">> \in blacklist.elems

\* C27: a decoration with ignore_builtins and a non-empty whitelist raises
\* the ValueError of a blacklist given together with a whitelist and returns
\* no function, whether or not the caller supplied a blacklist.
C27_BuiltinsAndWhitelistRaise ==
    (pc # "defined" /\ opts.ignore_builtins /\ Truthy(opts.whitelist))
    => (pc = "failed" /\ err = "ValueError:lists" /\ new_func = NoFunc)

C27_Witness ==
    /\ pc = "failed" /\ err = "ValueError:lists"
    /\ opts.ignore_builtins /\ Truthy(opts.whitelist)
    /\ opts.blacklist.isNone /\ blacklist.isNone

\* The lines of a listing, each one greater.
OneGreater(lines) ==
    [x \in 1..Len(lines) |-> [kind |-> lines[x].kind, lineno |-> lines[x].lineno + 1]]

OtherForm(d) == ~(d.kind = "Name" \/ (d.kind = "Call" /\ d.kids[1].kind = "Name"))
HasOtherForm ==
    \E x \in 1..Len(target.source.tree.decorator_list) :
        OtherForm(target.source.tree.decorator_list[x])

\* C29: when a decorator name is supplied and some decorator of the
\* definition is neither a bare name nor a call of a bare name, the
\* rewrite that reaches the removal fails with TypeError and returns no
\* function, also when that decorator is not the engine's and another
\* decorator of the list matches the name.
C29_OtherFormsRaiseTypeError ==
    (Passes >= 1 /\ opts.decorator_name # NoDeco /\ HasOtherForm)
    => (pc = "failed" /\ err = "TypeError:decorator" /\ new_func = NoFunc)

C29_Witness ==
    /\ pc = "failed" /\ err = "TypeError:decorator"
    /\ opts.decorator_name # NoDeco /\ HasOtherForm
    /\ EngineDecorators # {}
    /\ \E x \in 1..Len(target.source.tree.decorator_list) :
          target.source.tree.decorator_list[x].kind = "Call"
             /\ target.source.tree.decorator_list[x].kids[1].kind = "Attribute"
             /\ x > Min(EngineDecorators)

\* The decorators written above the engine's, and the applications the
\* original definition statement makes once the engine's decorator has
\* returned: each of them, the lowest first, to the object returned.
Above ==
    IF EngineDecorators = {} THEN <<>>
    ELSE SubSeq(target.source.tree.decorator_list, 1, Min(EngineDecorators) - 1)
AppliedByDefinition == [x \in 1..Len(Above) |-> DecoName(Above[Len(Above) + 1 - x])]
Times(seq, n) == Cardinality({x \in 1..Len(seq) : seq[x] = n})

\* C30: the decorators the removal leaves are in the recompiled definition
\* and are all applied, the lowest first, when the unit is executed; a
\* decorator written once, above the engine's, is so applied twice in
\* total: at that execution and by the original definition afterwards.
C30_OtherDecoratorsAppliedAgain ==
    (pc = "decorated" /\ opts.decorator_name # NoDeco)
    => /\ Len(new_func.tree.decorator_list) = Len(Remaining)
       /\ new_func.applied =
             [x \in 1..Len(Remaining) |-> DecoName(Remaining[Len(Remaining) + 1 - x])]
       /\ \A x \in 1..Len(Above) :
             Times(DecoNames(target.source.tree.decorator_list), DecoName(Above[x])) = 1
             => Times(new_func.applied, DecoName(Above[x]))
                  + Times(AppliedByDefinition, DecoName(Above[x])) = 2

C30_Witness ==
    /\ pc = "decorated" /\ target.source.tree.decorator_list = DecosAbove
    /\ new_func.applied = <<"unrelated_decorator">>
    /\ AppliedByDefinition = <<"unrelated_decorator">>
====
